---- MODULE Spec2Model ----
(***************************************************************************)
(* Navigation plugin of RAG3D-Chat (src/plugins/nav_plugin.py) with the    *)
(* path visualizer (src/misc/navmesh_vis.py); the index and the room       *)
(* filter of the text and image plugins; the batch runners (src/sk_rag.py, *)
(* src/rag3dchat_call.py); the configuration handler.                      *)
(*                                                                         *)
(* Lengths are exact integers in thousandths of a meter (the extraction    *)
(* prompt allows three decimals). A float is a record [k, v]: k = "num"    *)
(* with v the value in thousandths, or k = "nan" / "inf" / "-inf".         *)
(* A Python str is a sequence of one-character strings.                    *)
(***************************************************************************)
EXTENDS Integers, Sequences, FiniteSets, TLC

\* ------------------------------------------------------------------------
\* Floats
\* ------------------------------------------------------------------------
Num(n) == [k |-> "num", v |-> n]
NaN == [k |-> "nan", v |-> 0]
PosInf == [k |-> "inf", v |-> 0]
NegInf == [k |-> "-inf", v |-> 0]
IsFinite(x) == x.k = "num"

\* Python None, as returned for start and goal when extraction fails
PyNone == <<>>

\* isinstance(a, np.ndarray): _nl_to_numpy returns rows of a (-1, 3) array
\* or None
IsArray(a) == a # PyNone

Abs(n) == IF n < 0 THEN -n ELSE n

\* ------------------------------------------------------------------------
\* Strings: str.replace, str.split, float()
\* ------------------------------------------------------------------------
\* The sentinel the prompt asks for when no two positions can be extracted
SentinelNone == <<"N", "o", "n", "e">>

\* s.replace(c, "") for a one-character c
RECURSIVE RemoveChar(_, _)
RemoveChar(s, c) ==
    IF s = <<>> THEN <<>>
    ELSE IF Head(s) = c THEN RemoveChar(Tail(s), c)
    ELSE <<Head(s)>> \o RemoveChar(Tail(s), c)

\* s.split(","): the pieces between commas; always at least one piece
RECURSIVE SplitFrom(_, _, _)
SplitFrom(s, i, cur) ==
    IF i > Len(s) THEN <<cur>>
    ELSE IF s[i] = "," THEN <<cur>> \o SplitFrom(s, i + 1, <<>>)
    ELSE SplitFrom(s, i + 1, Append(cur, s[i]))

Split(s) == SplitFrom(s, 1, <<>>)

Digits == {"0", "1", "2", "3", "4", "5", "6", "7", "8", "9"}

DigitVal(c) ==
    CASE c = "0" -> 0 [] c = "1" -> 1 [] c = "2" -> 2 [] c = "3" -> 3
      [] c = "4" -> 4 [] c = "5" -> 5 [] c = "6" -> 6 [] c = "7" -> 7
      [] c = "8" -> 8 [] c = "9" -> 9

\* leading and trailing blanks are ignored by the float conversion
RECURSIVE LStrip(_)
LStrip(s) == IF s # <<>> /\ Head(s) = " " THEN LStrip(Tail(s)) ELSE s

RECURSIVE RStrip(_)
RStrip(s) ==
    IF s # <<>> /\ s[Len(s)] = " " THEN RStrip(SubSeq(s, 1, Len(s) - 1)) ELSE s

Strip(s) == RStrip(LStrip(s))

AllDigits(s) == \A i \in 1..Len(s) : s[i] \in Digits

RECURSIVE DecimalValue(_)
DecimalValue(s) ==
    IF s = <<>> THEN 0
    ELSE 10 * DecimalValue(SubSeq(s, 1, Len(s) - 1)) + DigitVal(s[Len(s)])

\* index of the first "." of s, or 0
DotIndex(s) ==
    IF \E i \in 1..Len(s) : s[i] = "."
    THEN CHOOSE i \in 1..Len(s) : s[i] = "." /\ \A j \in 1..(i - 1) : s[j] # "."
    ELSE 0

\* the extraction prompt asks for no more than three decimals
MaxDecimals == 3

\* the fraction digits as thousandths (digits past the third are below the
\* resolution of the model; the responses of the model have none)
FractionValue(f) ==
    LET d == SubSeq(f, 1, IF Len(f) < MaxDecimals THEN Len(f) ELSE MaxDecimals)
    IN  CASE Len(d) = 0 -> 0
          [] Len(d) = 1 -> 100 * DecimalValue(d)
          [] Len(d) = 2 -> 10 * DecimalValue(d)
          [] OTHER -> DecimalValue(d)

\* an unsigned decimal literal: digits, optionally with a fraction point
IsDecimal(s) ==
    LET d == DotIndex(s)
    IN  IF d = 0 THEN s # <<>> /\ AllDigits(s)
        ELSE /\ AllDigits(SubSeq(s, 1, d - 1))
             /\ AllDigits(SubSeq(s, d + 1, Len(s)))
             /\ Len(s) > 1

DecimalFloat(s) ==
    LET d == DotIndex(s)
    IN  IF d = 0 THEN 1000 * DecimalValue(s)
        ELSE 1000 * DecimalValue(SubSeq(s, 1, d - 1))
               + FractionValue(SubSeq(s, d + 1, Len(s)))

ValueError == [k |-> "ValueError", v |-> 0]

\* float(piece) as numpy applies it for dtype=float: a float, or ValueError
ParseFloat(piece) ==
    LET s == Strip(piece)
        neg == s # <<>> /\ Head(s) = "-"
        signed == s # <<>> /\ Head(s) \in {"-", "+"}
        body == IF signed THEN Tail(s) ELSE s
    IN  IF body = <<"n", "a", "n">> THEN NaN
        ELSE IF body = <<"i", "n", "f">> THEN (IF neg THEN NegInf ELSE PosInf)
        ELSE IF IsDecimal(body)
             THEN Num(IF neg THEN -DecimalFloat(body) ELSE DecimalFloat(body))
        ELSE ValueError

\* ------------------------------------------------------------------------
\* NavPlugin._nl_to_numpy: the adapter's response to (start, goal)
\* ------------------------------------------------------------------------
\* A response of the adapter: a str, or Python None (the declared return type
\* is str, the chat completion's content may be None)
StrResp(s) == [type |-> "str", s |-> s]
NoneResp == [type |-> "NoneType", s |-> <<>>]

\* np.array(split_values, dtype=float): every piece converted, or ValueError
Floats(pieces) == [i \in 1..Len(pieces) |-> ParseFloat(pieces[i])]

\* .reshape(-1, 3): rows of three, or ValueError when the count is no
\* multiple of 3
Reshape3(fl) == [r \in 1..(Len(fl) \div 3) |-> SubSeq(fl, 3 * r - 2, 3 * r)]

\* the try block of _nl_to_numpy: "ok" with the rows, or the exception raised
ParsePositions(s) ==
    LET cleaned_string == RemoveChar(RemoveChar(s, "("), ")")
        split_values == Split(cleaned_string)
        fl == Floats(split_values)
    IN  IF \E i \in 1..Len(fl) : fl[i] = ValueError
        THEN [exc |-> "ValueError", rows |-> <<>>]
        ELSE IF Len(fl) % 3 # 0
        THEN [exc |-> "ValueError", rows |-> <<>>]
        ELSE IF Len(fl) \div 3 < 2
        THEN [exc |-> "IndexError", rows |-> <<>>]
        ELSE [exc |-> "ok", rows |-> Reshape3(fl)]

Extracted(exc, start, goal) == [exc |-> exc, start |-> start, goal |-> goal]

\* _nl_to_numpy after the adapter answered, with `except ValueError` in place
\* of `except Exception`: the other exceptions of the try block escape
NlToNumpyNarrowExcept(response) ==
    IF response.type = "str" /\ response.s = SentinelNone
    THEN Extracted("ok", PyNone, PyNone)
    ELSE IF response.type # "str"
    THEN Extracted("AttributeError", PyNone, PyNone)
    ELSE LET r == ParsePositions(response.s)
         IN  IF r.exc = "ok" THEN Extracted("ok", r.rows[1], r.rows[2])
             ELSE IF r.exc = "ValueError" THEN Extracted("ok", PyNone, PyNone)
             ELSE Extracted(r.exc, PyNone, PyNone)

\* _nl_to_numpy after the adapter answered: start and goal, and the exception
\* that leaves the method ("ok": none does, `except Exception` catches all)
NlToNumpy(response) ==
    IF response.type = "str" /\ response.s = SentinelNone
    THEN Extracted("ok", PyNone, PyNone)
    ELSE IF response.type # "str"
    THEN Extracted("ok", PyNone, PyNone)       \* AttributeError on .replace, caught
    ELSE LET r == ParsePositions(response.s)
         IN  IF r.exc = "ok"
             THEN Extracted("ok", r.rows[1], r.rows[2])
             ELSE Extracted("ok", PyNone, PyNone)   \* except Exception

\* ------------------------------------------------------------------------
\* Vectors. Mesh vertices and finite query points are integer triples; a
\* point computed on the surface is a homogeneous quadruple <<X, Y, Z, W>>
\* standing for (X/W, Y/W, Z/W), W > 0, in lowest terms.
\* ------------------------------------------------------------------------
Sub(a, b) == <<a[1] - b[1], a[2] - b[2], a[3] - b[3]>>
Dot(a, b) == a[1] * b[1] + a[2] * b[2] + a[3] * b[3]
Cross(a, b) ==
    <<a[2] * b[3] - a[3] * b[2], a[3] * b[1] - a[1] * b[3], a[1] * b[2] - a[2] * b[1]>>
SqNorm(a) == Dot(a, a)

RECURSIVE Gcd(_, _)
Gcd(a, b) == IF b = 0 THEN Abs(a) ELSE Gcd(b, a % b)

\* lowest terms of (X, Y, Z)/W
DivideBy(X, Y, Z, W, g) == <<X \div g, Y \div g, Z \div g, W \div g>>
Reduce(X, Y, Z, W) == DivideBy(X, Y, Z, W, Gcd(Gcd(Gcd(Abs(X), Abs(Y)), Abs(Z)), W))

\* the point a + (n/d) * dir, d > 0, in lowest terms
Along(a, dir, n, d) ==
    Reduce(a[1] * d + n * dir[1], a[2] * d + n * dir[2], a[3] * d + n * dir[3], d)

Hom(a) == <<a[1], a[2], a[3], 1>>

\* squared distance between integer point p and homogeneous point c, times W^2
SqDistScaled(p, c) ==
    SqNorm(<<c[4] * p[1] - c[1], c[4] * p[2] - c[2], c[4] * p[3] - c[3]>>)

FiniteVec(a) == \A i \in 1..3 : IsFinite(a[i])
IntVec(a) == <<a[1].v, a[2].v, a[3].v>>
FloatVec(p) == <<Num(p[1]), Num(p[2]), Num(p[3])>>

\* ------------------------------------------------------------------------
\* Nearest-surface locator: igl.signed_distance's closest point, then the
\* closest vertex to that point (NavPlugin._snap_to_closest_vertex)
\* ------------------------------------------------------------------------
\* the region of the triangle nearest to p decides: a corner, a point of an
\* edge, or the foot of the perpendicular inside the face. d1..d6 are the
\* projections of p - a, p - b, p - c on the edges ab and ac; va, vb, vc the
\* (unnormalized) barycentric coordinates of the foot.
ClosestByRegion(a, b, c, ab, ac, bc, d1, d2, d3, d4, d5, d6, va, vb, vc) ==
    IF d1 <= 0 /\ d2 <= 0 THEN Hom(a)
    ELSE IF d3 >= 0 /\ d4 <= d3 THEN Hom(b)
    ELSE IF vc <= 0 /\ d1 >= 0 /\ d3 <= 0 THEN Along(a, ab, d1, d1 - d3)
    ELSE IF d6 >= 0 /\ d5 <= d6 THEN Hom(c)
    ELSE IF vb <= 0 /\ d2 >= 0 /\ d6 <= 0 THEN Along(a, ac, d2, d2 - d6)
    ELSE IF va <= 0 /\ d4 - d3 >= 0 /\ d5 - d6 >= 0
         THEN Along(b, bc, d4 - d3, (d4 - d3) + (d5 - d6))
    ELSE Reduce(a[1] * (va + vb + vc) + ab[1] * vb + ac[1] * vc,
                a[2] * (va + vb + vc) + ab[2] * vb + ac[2] * vc,
                a[3] * (va + vb + vc) + ab[3] * vb + ac[3] * vc, va + vb + vc)

ClosestByProjections(a, b, c, ab, ac, bc, d1, d2, d3, d4, d5, d6) ==
    ClosestByRegion(a, b, c, ab, ac, bc, d1, d2, d3, d4, d5, d6,
                    d3 * d6 - d5 * d4, d5 * d2 - d1 * d6, d1 * d4 - d3 * d2)

ClosestByEdges(p, a, b, c, ab, ac, bc) ==
    ClosestByProjections(a, b, c, ab, ac, bc,
                         Dot(ab, Sub(p, a)), Dot(ac, Sub(p, a)),
                         Dot(ab, Sub(p, b)), Dot(ac, Sub(p, b)),
                         Dot(ab, Sub(p, c)), Dot(ac, Sub(p, c)))

\* closest point of triangle (a, b, c) to p
ClosestPointOnTriangle(p, a, b, c) ==
    ClosestByEdges(p, a, b, c, Sub(b, a), Sub(c, a), Sub(c, b))

\* is c1 strictly closer to p than c2 (squared distances, cross-multiplied)
Closer(p, c1, c2) ==
    SqDistScaled(p, c1) * c2[4] * c2[4] < SqDistScaled(p, c2) * c1[4] * c1[4]

FaceClosest(V, F, p, f) ==
    ClosestPointOnTriangle(p, V[F[f][1]], V[F[f][2]], V[F[f][3]])

\* the closest point over all faces; the first face found wins a tie
NearerOf(p, c, best) == IF Closer(p, c, best) THEN c ELSE best

RECURSIVE ClosestOverFaces(_, _, _, _, _)
ClosestOverFaces(V, F, p, f, best) ==
    IF f > Len(F) THEN best
    ELSE ClosestOverFaces(V, F, p, f + 1, NearerOf(p, FaceClosest(V, F, p, f), best))

Origin == <<0, 0, 0, 1>>

\* igl.signed_distance(np.array([point]), V, F)[2]. For a query point with a
\* NaN or infinite coordinate no face is closer than the unbounded upper
\* distance, and the library reports the zero row as closest point.
SignedDistanceClosest(V, F, point) ==
    IF ~FiniteVec(point) THEN Origin
    ELSE ClosestOverFaces(V, F, IntVec(point), 1, FaceClosest(V, F, IntVec(point), 1))

\* line 154 with np.argmax for np.argmin: the lowest index among the vertices
\* at maximal distance
ArgMaxVertex(V, c) ==
    CHOOSE i \in 1..Len(V) :
        /\ \A j \in 1..Len(V) : SqDistScaled(V[i], c) >= SqDistScaled(V[j], c)
        /\ \A j \in 1..(i - 1) : SqDistScaled(V[j], c) < SqDistScaled(V[i], c)

\* np.argmin(np.linalg.norm(V - closest_point, axis=1)): the lowest index among
\* the vertices at minimal distance
ArgMinVertex(V, c) ==
    CHOOSE i \in 1..Len(V) :
        /\ \A j \in 1..Len(V) : SqDistScaled(V[i], c) <= SqDistScaled(V[j], c)
        /\ \A j \in 1..(i - 1) : SqDistScaled(V[j], c) > SqDistScaled(V[i], c)

\* _snap_to_closest_vertex: closest point, closest vertex, its index (1-based
\* here, 0-based in the code)
SnapResult(V, closest_point, closest_vertex_index) ==
    [closest_point |-> closest_point,
     closest_vertex |-> V[closest_vertex_index],
     closest_vertex_index |-> closest_vertex_index]

SnapToPoint(V, closest_point) ==
    SnapResult(V, closest_point, ArgMinVertex(V, closest_point))

\* a locator that finds a vertex only for a point on the mesh, and for any
\* other point reports the index past the last vertex
SnapToClosestVertexOnMeshOnly(V, F, point) ==
    IF FiniteVec(point) /\ SignedDistanceClosest(V, F, point) # Hom(IntVec(point))
    THEN [closest_point |-> SignedDistanceClosest(V, F, point),
          closest_vertex |-> <<>>,
          closest_vertex_index |-> Len(V) + 1]
    ELSE SnapToPoint(V, SignedDistanceClosest(V, F, point))

\* line 153 as `self._vertices - point`: the distances measured from the raw
\* query point
SnapToClosestVertexOfRawPoint(V, F, point) ==
    IF FiniteVec(point)
    THEN SnapResult(V, SignedDistanceClosest(V, F, point),
                    ArgMinVertex(V, Hom(IntVec(point))))
    ELSE SnapToPoint(V, SignedDistanceClosest(V, F, point))

SnapToClosestVertex(V, F, point) == SnapToPoint(V, SignedDistanceClosest(V, F, point))

\* ------------------------------------------------------------------------
\* Geodesic solver: geodesic.PyGeodesicAlgorithmExact(V, F).geodesicDistance
\* A distance is [k, runs]: k = "len" with runs the squared lengths of the
\* straight runs of the path (the distance is the sum of their roots), or
\* k = "nan" / "inf". A path is [isNone, pts], pts from target to source.
\* ------------------------------------------------------------------------
Len0 == [k |-> "len", runs |-> <<>>]
Straight(sq) == [k |-> "len", runs |-> IF sq = 0 THEN <<>> ELSE <<sq>>]
NonePath == [isNone |-> TRUE, pts |-> <<>>]
Path(pts) == [isNone |-> FALSE, pts |-> pts]

FaceVerts(F, f) == {F[f][1], F[f][2], F[f][3]}

\* the wavefront from a set of vertices: it crosses every face it touches,
\* until no further vertex is reached
RECURSIVE Propagate(_, _)
Propagate(F, reached) ==
    LET next == reached \cup UNION {FaceVerts(F, f) :
                    f \in {g \in 1..Len(F) : FaceVerts(F, g) \cap reached # {}}}
    IN  IF next = reached THEN reached ELSE Propagate(F, next)

ShareFace(F, s, t) == \E f \in 1..Len(F) : {s, t} \subseteq FaceVerts(F, f)

\* the edges (a, b) with a face on s's side and a face on t's side
SeparatingEdges(V, F, s, t) ==
    {e \in (1..Len(V)) \X (1..Len(V)) :
        /\ e[1] < e[2]
        /\ \E f \in 1..Len(F) : FaceVerts(F, f) = {s, e[1], e[2]}
        /\ \E f \in 1..Len(F) : FaceVerts(F, f) = {t, e[1], e[2]}}

\* where the segment from s to t crosses the line of edge (a, b): the
\* parameter along the edge as <<numerator, denominator>>, denominator > 0
CrossingParam(ps, pt, pa, pb) ==
    LET st == Sub(pt, ps)
        ab == Sub(pb, pa)
        n == Cross(ab, st)
    IN  <<Dot(Cross(Sub(ps, pa), st), n), SqNorm(n)>>

\* the length of the path taken up to the vertex it turns at, the rest left out
AroundFirstRun(V, s, v, t) ==
    [k |-> "len", runs |-> <<SqNorm(Sub(V[v], V[s]))>>]

\* the distance along the runs from s over the vertex v to t; the sum of two
\* lengths does not depend on their order
Around(V, s, v, t) ==
    LET a == SqNorm(Sub(V[v], V[s]))
        b == SqNorm(Sub(V[t], V[v]))
    IN  [k |-> "len", runs |-> IF a <= b THEN <<a, b>> ELSE <<b, a>>]

\* a solver that takes the straight segment whether or not it stays on the faces
AcrossEdgeStraight(V, s, t, e, c) ==
    [dist |-> Straight(SqNorm(Sub(V[t], V[s]))),
     path |-> Path(<<Hom(V[t]), Along(V[e[1]], Sub(V[e[2]], V[e[1]]), c[1], c[2]),
                     Hom(V[s])>>)]

\* from s to t on the two faces that share the edge e, s and t opposite it: the
\* straight segment where it crosses the edge, else the way around the end of
\* the edge it passes by
AcrossEdge(V, s, t, e, c) ==
    IF 0 < c[1] /\ c[1] < c[2]
    THEN [dist |-> Straight(SqNorm(Sub(V[t], V[s]))),
          path |-> Path(<<Hom(V[t]), Along(V[e[1]], Sub(V[e[2]], V[e[1]]), c[1], c[2]),
                          Hom(V[s])>>)]
    ELSE IF c[1] <= 0
    THEN [dist |-> Around(V, s, e[1], t),
          path |-> Path(<<Hom(V[t]), Hom(V[e[1]]), Hom(V[s])>>)]
    ELSE [dist |-> Around(V, s, e[2], t),
          path |-> Path(<<Hom(V[t]), Hom(V[e[2]]), Hom(V[s])>>)]

AcrossSharedEdge(V, s, t, e) ==
    AcrossEdge(V, s, t, e, CrossingParam(V[s], V[t], V[e[1]], V[e[2]]))

\* a solver whose trace back from the source itself finds nothing to follow
\* and leaves the path empty
geodesicDistanceEmptyAtSource(V, F, s, t) ==
    IF s > Len(V) \/ t > Len(V) THEN [dist |-> Len0, path |-> NonePath]
    ELSE IF s = t \/ t \notin Propagate(F, {s}) THEN [dist |-> Len0, path |-> Path(<<>>)]
    ELSE IF ShareFace(F, s, t)
    THEN [dist |-> Straight(SqNorm(Sub(V[t], V[s]))),
          path |-> Path(<<Hom(V[t]), Hom(V[s])>>)]
    ELSE AcrossSharedEdge(V, s, t, CHOOSE e \in SeparatingEdges(V, F, s, t) : TRUE)

\* the exact shortest path over the surface. The meshes of the model are flat
\* and every component is one face or two faces sharing an edge, so the
\* shortest path is a straight segment, along an edge or across the shared
\* edge, or the two segments around an end of the shared edge.
geodesicDistance(V, F, s, t) ==
    IF s > Len(V) \/ t > Len(V) THEN [dist |-> Len0, path |-> NonePath]
    ELSE IF t \notin Propagate(F, {s}) THEN [dist |-> Len0, path |-> Path(<<>>)]
    ELSE IF s = t THEN [dist |-> Len0, path |-> Path(<<Hom(V[t])>>)]
    ELSE IF ShareFace(F, s, t)
    THEN [dist |-> Straight(SqNorm(Sub(V[t], V[s]))),
          path |-> Path(<<Hom(V[t]), Hom(V[s])>>)]
    ELSE AcrossSharedEdge(V, s, t, CHOOSE e \in SeparatingEdges(V, F, s, t) : TRUE)

\* line 96 as np.linalg.norm(goal): the start is not subtracted
NormOfGoal(start, goal) ==
    IF \E i \in 1..3 : goal[i].k = "nan" THEN [k |-> "nan", runs |-> <<>>]
    ELSE IF \E i \in 1..3 : ~IsFinite(goal[i]) THEN [k |-> "inf", runs |-> <<>>]
    ELSE Straight(SqNorm(IntVec(goal)))

\* np.linalg.norm(goal - start) for float vectors
Norm(start, goal) ==
    IF \E i \in 1..3 : start[i].k = "nan" \/ goal[i].k = "nan" THEN [k |-> "nan", runs |-> <<>>]
    ELSE IF \E i \in 1..3 : /\ ~IsFinite(start[i]) /\ ~IsFinite(goal[i])
                            /\ start[i].k = goal[i].k
    THEN [k |-> "nan", runs |-> <<>>]      \* inf - inf
    ELSE IF \E i \in 1..3 : ~IsFinite(start[i]) \/ ~IsFinite(goal[i])
    THEN [k |-> "inf", runs |-> <<>>]
    ELSE Straight(SqNorm(Sub(IntVec(goal), IntVec(start))))

\* ------------------------------------------------------------------------
\* The answers (nav_plugin.py:70-73, 97, 175-177, 185)
\* ------------------------------------------------------------------------
\* the f-string of lines 97 and 185 with its closing text lost
DistanceMsgCut(dist) == <<"The distance between specified points is ", dist, "">>

ExtractionFailedMsg ==
    <<"The query does not contain information about the objects' positions or the positions could not be parsed.">>
NotNavigableMsg ==
    <<"The path between specified objects is not navigable considering obstacles.">>
DistanceMsg(dist) ==
    <<"The distance between specified points is ", dist, " meters.">>

\* ------------------------------------------------------------------------
\* The visualization file name: np.round(., 2), str, "-".join
\* ------------------------------------------------------------------------
DigitChar(d) ==
    CASE d = 0 -> "0" [] d = 1 -> "1" [] d = 2 -> "2" [] d = 3 -> "3"
      [] d = 4 -> "4" [] d = 5 -> "5" [] d = 6 -> "6" [] d = 7 -> "7"
      [] d = 8 -> "8" [] d = 9 -> "9"

RECURSIVE NatStr(_)
NatStr(n) == IF n < 10 THEN <<DigitChar(n)>> ELSE NatStr(n \div 10) \o <<DigitChar(n % 10)>>

\* np.round(x, 2) of a finite x, in hundredths: to the nearest hundredth, a
\* half to the even one
RoundHundredths(v) ==
    LET lo == v \div 10
        r == v % 10
    IN  IF r < 5 THEN lo
        ELSE IF r > 5 THEN lo + 1
        ELSE IF lo % 2 = 0 THEN lo ELSE lo + 1

\* str(np.round(x, 2)): "0.0", "0.02", "-0.0" (a negative x that rounds to
\* zero keeps its sign), "nan", "inf"
RoundedStr(x) ==
    IF x.k = "nan" THEN <<"n", "a", "n">>
    ELSE IF x.k = "inf" THEN <<"i", "n", "f">>
    ELSE IF x.k = "-inf" THEN <<"-", "i", "n", "f">>
    ELSE LET h == RoundHundredths(x.v)
             m == Abs(h)
             frac == m % 100
             digits == IF frac % 10 = 0 THEN <<DigitChar(frac \div 10)>>
                       ELSE <<DigitChar(frac \div 10), DigitChar(frac % 10)>>
         IN  (IF x.v < 0 THEN <<"-">> ELSE <<>>) \o NatStr(m \div 100) \o <<".">> \o digits

\* "-".join(map(str, np.round(a, 2)))
PointStr(a) ==
    RoundedStr(a[1]) \o <<"-">> \o RoundedStr(a[2]) \o <<"-">> \o RoundedStr(a[3])

\* f"{start_str}_{goal_str}.html", inside the visualization directory
FileName(start, goal) ==
    PointStr(start) \o <<"_">> \o PointStr(goal) \o <<".", "h", "t", "m", "l">>

\* ------------------------------------------------------------------------
\* misc.navmesh_vis.visualize_navmesh_3d
\* ------------------------------------------------------------------------
\* the six labeled markers handed to the visualizer
MarkerPoints(start, goal, ss, sg) ==
    [start |-> start, goal |-> goal,
     closest_start |-> ss.closest_point, closest_goal |-> sg.closest_point,
     closest_v_start |-> ss.closest_vertex, closest_v_goal |-> sg.closest_vertex]

\* what the call does: the exception it raises, or "ok" and the figure written
\* to out_filename
visualize_navmesh_3d(V, F, dirExists, waypoints, points) ==
    IF Len(F) = 0
    THEN [exc |-> "ValueError", html |-> <<>>]     \* np.concatenate of no triangles
    ELSE IF ~waypoints.isNone /\ waypoints.pts = <<>>
    THEN [exc |-> "ValueError", html |-> <<>>]     \* zip(*waypoints) unpacked into three
    ELSE IF ~dirExists
    THEN [exc |-> "FileNotFoundError", html |-> <<>>]   \* fig.write_html
    ELSE [exc |-> "ok",
          html |-> <<[mesh |-> <<V, F>>, waypoints |-> waypoints, points |-> points]>>]

\* ------------------------------------------------------------------------
\* The inputs of the model: the mesh file and what the adapter may answer
\* ------------------------------------------------------------------------
\* A flat mesh of two components, lengths in thousandths: a 2 x 2 square split
\* into two triangles along the diagonal from vertex 2 to vertex 4, and a
\* separate triangle.
SquareAndTriangle ==
    [vertices |-> << <<0, 0, 0>>, <<2, 0, 0>>, <<2, 2, 0>>, <<0, 2, 0>>,
                     <<6, 0, 0>>, <<8, 0, 0>>, <<6, 2, 0>> >>,
     faces |-> << <<1, 2, 4>>, <<2, 3, 4>>, <<5, 6, 7>> >>]

Meshes == {SquareAndTriangle}

\* number literals as the adapter writes them
L0 == <<"0">>
L001 == <<"0", ".", "0", "0", "1">>
L002 == <<"0", ".", "0", "0", "2">>
L004 == <<"0", ".", "0", "0", "4">>
L006 == <<"0", ".", "0", "0", "6">>
L02 == <<"0", ".", "0", "2">>
LNaN == <<"n", "a", "n">>
LInf == <<"i", "n", "f">>
LNeg == <<"-", "0", ".", "0", "0", "1">>

\* "(x,y,z)"
Triple(a) == <<"(">> \o a[1] \o <<",">> \o a[2] \o <<",">> \o a[3] \o <<")">>
\* "(x1,y1,z1),(x2,y2,z2)", the format of NAV_SYSTEM_PROMPT
TwoPoints(a, b) == Triple(a) \o <<",">> \o Triple(b)

PA == <<L0, L0, L0>>             \* vertex 1
PA1 == <<L001, L0, L0>>          \* on an edge, as near to vertex 1 as to vertex 2
PS == <<L002, L0, L0>>           \* vertex 2
PN == <<LNaN, L0, L0>>           \* not finite
PI == <<LInf, L0, L0>>           \* not finite
PB == <<L002, L002, L0>>         \* vertex 3, across the diagonal from vertex 1
PC == <<L006, L0, L0>>           \* vertex 5, on the other component
PF == <<L02, LNeg, L004>>        \* far outside the mesh, nearest to vertex 6

WellFormed ==
    { TwoPoints(PA, PB), TwoPoints(PA1, PB), TwoPoints(PS, PB), TwoPoints(PN, PB),
      TwoPoints(PA, PC), TwoPoints(PA, PF), TwoPoints(PA1, PA), TwoPoints(PB, PI) }

Malformed ==
    { SentinelNone,
      <<>>,                                                     \* ""
      Triple(<<L0, L0, L0>>),                                   \* one point
      TwoPoints(<<L0, L0, L0>>, <<L002, L002, L0>>)
          \o <<",">> \o Triple(<<L006, L0, L0>>),               \* three points
      <<"(">> \o L0 \o <<",">> \o L0 \o <<")", ",">>
          \o Triple(<<L002, L002, L0>>),                        \* a pair and a triple
      TwoPoints(<<L0, <<"x">>, L0>>, <<L002, L002, L0>>),       \* not a number
      L0 \o <<",">> \o L0 \o <<",", " ">> \o L0 \o <<",">> \o L002
          \o <<",">> \o L002 \o <<",">> \o L0 }                 \* no parentheses

Responses == {StrResp(s) : s \in WellFormed \cup Malformed} \cup {NoneResp}

\* the responses of the concurrent queries: two that differ only below the
\* second decimal, one on the other component, one across components, one
\* without positions
ConcResponses ==
    { StrResp(TwoPoints(PA, PB)),
      StrResp(TwoPoints(PA1, PB)),
      StrResp(TwoPoints(PC, PF)),
      StrResp(TwoPoints(PA, PC)),
      StrResp(SentinelNone) }

Ops == {"actual", "line"}

\* queries made on one engine in a behaviour, and callers
MaxQueries == 2
NumThreads == 2
Threads == 1..NumThreads

\* ------------------------------------------------------------------------
\* State
\* ------------------------------------------------------------------------
VARIABLES
    vertices,      \* self._vertices
    faces,         \* self._faces
    vis_dirpath,   \* self._vis_dirpath: NoDir (None) or VisDir
    dirs,          \* the directories that exist
    files,         \* the files written: name -> content
    q,             \* per caller: the call in progress and its locals
    history,       \* the completed calls, with what each gave its caller
    started,       \* number of calls made
    plugin,        \* the TextPlugin and the ImagePlugin last constructed
    runner,        \* the batch runner: the locals of main()
    handler        \* the ConfigHandler

vars == <<vertices, faces, vis_dirpath, dirs, files, q, history, started,
          plugin, runner, handler>>

\* the parts of the program a behaviour leaves out: not constructed, not run
Absent == [made |-> "none"]
elsewhere == <<plugin, runner, handler>>
Elsewhere == plugin = Absent /\ runner = Absent /\ handler = Absent

NoDir == "None"
VisDir == "vis"

NoSnap == [closest_point |-> <<>>, closest_vertex |-> <<>>, closest_vertex_index |-> 0]

IdleQ ==
    [pc |-> "idle", op |-> "", llm |-> NoneResp, start |-> PyNone, goal |-> PyNone,
     snap_s |-> NoSnap, snap_g |-> NoSnap, dist |-> Len0, path |-> NonePath,
     response |-> <<>>, calls |-> <<>>, filename |-> <<>>, exc |-> "", wave |-> {},
     query |-> <<>>, asked |-> <<>>]

\* NavPlugin.__init__: the mesh is read, the chat and the directory are kept
Init ==
    /\ \E m \in Meshes : vertices = m.vertices /\ faces = m.faces
    /\ \/ vis_dirpath = NoDir /\ dirs = {}
       \/ vis_dirpath = VisDir /\ dirs \in SUBSET {VisDir}
    /\ files = <<>>
    /\ q = [t \in Threads |-> IdleQ]
    /\ history = {}
    /\ started = 0
    /\ Elsewhere

\* the files a plugin may be constructed on: a mesh file, a file whose header
\* announces no vertex and no face, a file that is no mesh file
NoMesh == [vertices |-> <<>>, faces |-> <<>>]
MeshFiles ==
    {[kind |-> "mesh", mesh |-> m] : m \in Meshes}
        \cup {[kind |-> "mesh", mesh |-> NoMesh], [kind |-> "text", mesh |-> NoMesh]}

\* geodesic.read_mesh_from_file: the arrays the file announces, of whatever
\* size; what is not a mesh file ends the constructor with an exception
read_mesh_from_file(file) ==
    IF file.kind = "mesh"
    THEN [exc |-> "ok", vertices |-> file.mesh.vertices, faces |-> file.mesh.faces]
    ELSE [exc |-> "ValueError", vertices |-> <<>>, faces |-> <<>>]

\* NavPlugin.__init__ on any of the files: the plugins that come to exist
InitLoad ==
    /\ \E file \in MeshFiles :
           /\ read_mesh_from_file(file).exc = "ok"
           /\ vertices = read_mesh_from_file(file).vertices
           /\ faces = read_mesh_from_file(file).faces
    /\ \/ vis_dirpath = NoDir /\ dirs = {}
       \/ vis_dirpath = VisDir /\ dirs \in SUBSET {VisDir}
    /\ files = <<>>
    /\ q = [t \in Threads |-> IdleQ]
    /\ history = {}
    /\ started = 0
    /\ Elsewhere

\* ------------------------------------------------------------------------
\* NavPlugin._get_navigable_distance, lines 175-185: snap, solve, answer
\* ------------------------------------------------------------------------
\* line 184 as `if path is not None:` alone
AnsweredWithoutSizeCheck(ss, sg, r) ==
    [snap_s |-> ss, snap_g |-> sg, dist |-> r.dist, path |-> r.path,
     response |-> IF ~r.path.isNone THEN DistanceMsg(r.dist) ELSE NotNavigableMsg]

\* line 184-185: the answer for what the solver returned
Answered(ss, sg, r) ==
    [snap_s |-> ss, snap_g |-> sg, dist |-> r.dist, path |-> r.path,
     response |-> IF ~r.path.isNone /\ r.path.pts # <<>>
                  THEN DistanceMsg(r.dist)
                  ELSE NotNavigableMsg]

\* lines 181-182 with one solver kept in the plugin: its wavefront is spent by
\* the first query, and later queries find no path
SolvedByKeptSolver(V, F, ss, sg) ==
    IF \E c \in history : "solve" \in {c.calls[i] : i \in 1..Len(c.calls)}
    THEN Answered(ss, sg, [dist |-> Len0, path |-> Path(<<>>)])
    ELSE Answered(ss, sg,
             geodesicDistance(V, F, ss.closest_vertex_index, sg.closest_vertex_index))

\* lines 181-182 with one solver kept in the plugin, which a query that ended
\* in an exception leaves in the middle of its work: it finds no path again
SolvedBySolverLeftByFailure(V, F, ss, sg) ==
    IF \E c \in history : c.outcome = "raised"
    THEN Answered(ss, sg, [dist |-> Len0, path |-> Path(<<>>)])
    ELSE Answered(ss, sg,
             geodesicDistance(V, F, ss.closest_vertex_index, sg.closest_vertex_index))

\* line 182 with its arguments exchanged: the goal's vertex as the source
SolvedFromGoal(V, F, ss, sg) ==
    Answered(ss, sg, geodesicDistance(V, F, sg.closest_vertex_index,
                                       ss.closest_vertex_index))

\* lines 181-182: a new solver for the mesh, asked for the two snapped vertices
Solved(V, F, ss, sg) ==
    Answered(ss, sg, geodesicDistance(V, F, ss.closest_vertex_index,
                                       sg.closest_vertex_index))

NavigableDistance(V, F, start, goal) ==
    Solved(V, F, SnapToClosestVertex(V, F, start), SnapToClosestVertex(V, F, goal))

\* ------------------------------------------------------------------------
\* Actions
\* ------------------------------------------------------------------------
AllIdle == \A u \in Threads : q[u].pc = "idle"

\* the fixed system message of the extraction, by its name
NAV_SYSTEM_PROMPT == "NAV_SYSTEM_PROMPT"

\* line 120 with the query stripped of its outer blanks before it is sent
AskedStripped(query) == <<NAV_SYSTEM_PROMPT, Strip(query)>>

\* lines 120-122: the arguments of get_response
Asked(query) == <<NAV_SYSTEM_PROMPT, query>>

\* a public operation is called with a query and asks the adapter for the
\* positions
Ask(t, o, query) ==
    /\ q[t].pc = "idle"
    /\ started < MaxQueries
    /\ started' = started + 1
    /\ q' = [q EXCEPT ![t] = [IdleQ EXCEPT !.pc = "llm", !.op = o, !.calls = <<"llm">>,
                                          !.query = query, !.asked = Asked(query)]]
    /\ UNCHANGED <<elsewhere, vertices, faces, vis_dirpath, dirs, files, history>>

\* a call whose query text is left out: the empty query
Begin(t, o) == Ask(t, o, <<>>)

\* the planner calls one operation at a time, from its one thread
Call(t, o) == AllIdle /\ Begin(t, o)

\* callers that do not wait for each other
CallConcurrently(t, o) == Begin(t, o)

\* line 187 without its condition: the visualizer is called in any case
AfterNavigableDistanceAlwaysVis(c, nav, visualizes) ==
    [c EXCEPT !.pc = "vis",
              !.snap_s = nav.snap_s, !.snap_g = nav.snap_g,
              !.dist = nav.dist, !.path = nav.path, !.response = nav.response,
              !.calls = @ \o <<"locate", "locate", "solve">>]

\* the locals of get_actual_distance_from_query after _get_navigable_distance
\* computed its response
AfterNavigableDistance(c, nav, visualizes) ==
    [c EXCEPT !.pc = IF visualizes THEN "vis" ELSE "ret",
              !.snap_s = nav.snap_s, !.snap_g = nav.snap_g,
              !.dist = nav.dist, !.path = nav.path, !.response = nav.response,
              !.calls = @ \o <<"locate", "locate", "solve">>]

\* the locals of get_straight_line_distance_from_query at its return
AfterStraightLine(c, dist) ==
    [c EXCEPT !.pc = "ret", !.dist = dist, !.response = DistanceMsg(dist)]

\* the locals of a public operation once _nl_to_numpy gave nl
AfterExtraction(c, r, nl, V, F, visualizes) ==
    IF nl.exc # "ok"
    THEN [c EXCEPT !.llm = r, !.pc = "exc", !.exc = nl.exc]
    ELSE IF ~(IsArray(nl.start) /\ IsArray(nl.goal))
    THEN [c EXCEPT !.llm = r, !.pc = "ret", !.response = ExtractionFailedMsg]
    ELSE IF c.op = "line"
    THEN AfterStraightLine([c EXCEPT !.llm = r, !.start = nl.start, !.goal = nl.goal],
                           Norm(nl.start, nl.goal))
    ELSE IF Len(V) = 0
    THEN \* line 154: np.argmin of no distances
         [c EXCEPT !.llm = r, !.start = nl.start, !.goal = nl.goal,
                   !.pc = "exc", !.exc = "ValueError", !.calls = @ \o <<"locate">>]
    ELSE AfterNavigableDistance(
             [c EXCEPT !.llm = r, !.start = nl.start, !.goal = nl.goal],
             NavigableDistance(V, F, nl.start, nl.goal), visualizes)

\* line 153 as `self._vertices -= closest_point`: the subtraction done in place
AnswerSnappingInPlace(t, r) ==
    /\ q[t].pc = "llm"
    /\ q' = [q EXCEPT ![t] = AfterExtraction(q[t], r, NlToNumpy(r), vertices, faces,
                                              vis_dirpath # NoDir)]
    /\ vertices' = IF q'[t].snap_g.closest_vertex_index = 0 THEN vertices
                   ELSE [i \in DOMAIN vertices |->
                            Sub(vertices[i], vertices[q'[t].snap_g.closest_vertex_index])]
    /\ UNCHANGED <<elsewhere, faces, vis_dirpath, dirs, files, history, started>>

\* the adapter answers r: the rest of the operation up to its return, or up to
\* the call of the visualizer
Answer(t, r) ==
    /\ q[t].pc = "llm"
    /\ q' = [q EXCEPT ![t] = AfterExtraction(q[t], r, NlToNumpy(r), vertices, faces,
                                              vis_dirpath # NoDir)]
    /\ UNCHANGED <<elsewhere, vertices, faces, vis_dirpath, dirs, files, history, started>>

\* lines 187-200: the figure of the path is written into the directory
Visualize(t) ==
    /\ q[t].pc = "vis"
    /\ LET filename == FileName(q[t].start, q[t].goal)
           points == MarkerPoints(q[t].start, q[t].goal, q[t].snap_s, q[t].snap_g)
           r == visualize_navmesh_3d(vertices, faces, vis_dirpath \in dirs,
                                     q[t].path, points)
       IN  IF r.exc = "ok"
           THEN /\ files' = (filename :> r.html) @@ files
                /\ q' = [q EXCEPT ![t].pc = "ret", ![t].filename = filename,
                                  ![t].calls = @ \o <<"vis">>]
           ELSE /\ files' = files
                /\ q' = [q EXCEPT ![t].pc = "exc", ![t].exc = r.exc,
                                  ![t].calls = @ \o <<"vis">>]
    /\ UNCHANGED <<elsewhere, vertices, faces, vis_dirpath, dirs, history, started>>

Completed(c, outcome) ==
    [op |-> c.op, llm |-> c.llm, start |-> c.start, goal |-> c.goal,
     snap_s |-> c.snap_s, snap_g |-> c.snap_g, dist |-> c.dist, path |-> c.path,
     response |-> c.response, calls |-> c.calls, filename |-> c.filename,
     exc |-> c.exc, query |-> c.query, asked |-> c.asked, outcome |-> outcome]

\* the operation returns its response
Return(t) ==
    /\ q[t].pc = "ret"
    /\ history' = history \cup {Completed(q[t], "returned")}
    /\ q' = [q EXCEPT ![t] = IdleQ]
    /\ UNCHANGED <<elsewhere, vertices, faces, vis_dirpath, dirs, files, started>>

\* an exception leaves the operation
Raise(t) ==
    /\ q[t].pc = "exc"
    /\ history' = history \cup {Completed(q[t], "raised")}
    /\ q' = [q EXCEPT ![t] = IdleQ]
    /\ UNCHANGED <<elsewhere, vertices, faces, vis_dirpath, dirs, files, started>>

Next ==
    \/ \E o \in Ops : Call(1, o)
    \/ \E t \in Threads, r \in Responses : Answer(t, r)
    \/ \E t \in Threads : Visualize(t)
    \/ \E t \in Threads : Return(t)
    \/ \E t \in Threads : Raise(t)

Spec == Init /\ [][Next]_vars

\* the steps of the program itself are taken once they can be; whether and when
\* the adapter answers (Answer) is up to the adapter, get_response is awaited
\* without a time limit (line 120)
SpecLive ==
    /\ Init
    /\ [][Next]_vars
    /\ \A t \in Threads :
           WF_vars(Visualize(t)) /\ WF_vars(Return(t)) /\ WF_vars(Raise(t))

\* A flat mesh of one component with a gap between two of its vertices: the
\* quadrilateral 1-2-3-4 with the reflex corner at vertex 2, split along the
\* edge from vertex 2 to vertex 4; the segment from vertex 1 to vertex 3 runs
\* outside the mesh.
Dart ==
    [vertices |-> << <<0, 0, 0>>, <<2, 2, 0>>, <<8, 0, 0>>, <<4, 8, 0>> >>,
     faces |-> << <<1, 2, 4>>, <<2, 3, 4>> >>]

AllMeshes == Meshes \cup {Dart}

\* n thousandths written with three decimals, as NAV_SYSTEM_PROMPT asks
Thousandths(n) ==
    <<"0", ".", DigitChar(n \div 100), DigitChar((n \div 10) % 10), DigitChar(n % 10)>>

PointAt(v) == <<Thousandths(v[1]), Thousandths(v[2]), Thousandths(v[3])>>

\* the adapter's response for two objects that stand at vertices a and b
AtVertices(V, a, b) == StrResp(TwoPoints(PointAt(V[a]), PointAt(V[b])))

\* a plugin without a visualization directory, on the mesh with the gap
InitSolve ==
    /\ vertices = Dart.vertices /\ faces = Dart.faces
    /\ vis_dirpath = NoDir /\ dirs = {}
    /\ files = <<>>
    /\ q = [t \in Threads |-> IdleQ]
    /\ history = {}
    /\ started = 0
    /\ Elsewhere

\* navigable-distance queries between objects at the vertices of the mesh
NextSolve ==
    \/ Call(1, "actual")
    \/ \E t \in Threads, a \in DOMAIN vertices, b \in DOMAIN vertices :
           Answer(t, AtVertices(vertices, a, b))
    \/ \E t \in Threads : Return(t)

SpecSolve == InitSolve /\ [][NextSolve]_vars

\* the operations on a plugin constructed on any of the files
SpecLoad == InitLoad /\ [][Next]_vars

NextConc ==
    \/ \E t \in Threads : CallConcurrently(t, "actual")
    \/ \E t \in Threads, r \in ConcResponses : Answer(t, r)
    \/ \E t \in Threads : Visualize(t)
    \/ \E t \in Threads : Return(t)
    \/ \E t \in Threads : Raise(t)

SpecConc == Init /\ [][NextConc]_vars

\* ------------------------------------------------------------------------
\* The solver at work (line 182): its wavefront, round by round
\* ------------------------------------------------------------------------
\* a wavefront that drops the vertices behind it: they are admitted again by
\* the round after
AdmitAgain(F, wave) ==
    UNION {FaceVerts(F, f) : f \in {g \in 1..Len(F) : FaceVerts(F, g) \cap wave # {}}}
        \ wave

\* one round of the wavefront: every face it touches is crossed, the vertices
\* reached stay reached
Admit(F, wave) ==
    wave \cup UNION {FaceVerts(F, f) :
                 f \in {g \in 1..Len(F) : FaceVerts(F, g) \cap wave # {}}}

\* lines 179-181 are reached: both positions are arrays, the mesh has vertices
SolverCalled(c, nl, V) ==
    /\ nl.exc = "ok"
    /\ IsArray(nl.start) /\ IsArray(nl.goal)
    /\ c.op = "actual"
    /\ Len(V) > 0

\* lines 179-181: both points snapped, a new solver with its wavefront at the
\* source vertex
Snapped(c, r, nl, ss, sg) ==
    [c EXCEPT !.llm = r, !.start = nl.start, !.goal = nl.goal,
              !.snap_s = ss, !.snap_g = sg,
              !.pc = "solve", !.wave = {ss.closest_vertex_index}]

\* the locals of get_actual_distance_from_query when the solver is called, or
\* those of either operation when it ends without calling it
UpToSolver(c, r, nl, V, F, visualizes) ==
    IF SolverCalled(c, nl, V)
    THEN Snapped(c, r, nl, SnapToClosestVertex(V, F, nl.start),
                 SnapToClosestVertex(V, F, nl.goal))
    ELSE AfterExtraction(c, r, nl, V, F, visualizes)

\* the adapter answers r: the operation up to its return, or up to the call
\* of the solver
AnswerUpToSolver(t, r) ==
    /\ q[t].pc = "llm"
    /\ q' = [q EXCEPT ![t] = UpToSolver(q[t], r, NlToNumpy(r), vertices, faces,
                                        vis_dirpath # NoDir)]
    /\ UNCHANGED <<elsewhere, vertices, faces, vis_dirpath, dirs, files, history, started>>

\* the target is reached, or a round admits nothing
SolverDone(F, c) ==
    \/ c.snap_g.closest_vertex_index \in c.wave
    \/ Admit(F, c.wave) = c.wave

\* line 182, one round of the solver
Advance(t) ==
    /\ q[t].pc = "solve"
    /\ ~SolverDone(faces, q[t])
    /\ q' = [q EXCEPT ![t].wave = Admit(faces, @)]
    /\ UNCHANGED <<elsewhere, vertices, faces, vis_dirpath, dirs, files, history, started>>

\* the distance and the path of the exact algorithm on each mesh, from every
\* source to every target
Geodesics ==
    UNION {{[vertices |-> m.vertices, faces |-> m.faces, s |-> st[1], t |-> st[2],
             r |-> geodesicDistance(m.vertices, m.faces, st[1], st[2])] :
                st \in (1..Len(m.vertices)) \X (1..Len(m.vertices))} : m \in AllMeshes}

\* what the solver returns when it stops: the distance and the path traced
\* back from the target, or an empty path for a target the wavefront never
\* reached
Traced(V, F, c) ==
    IF c.snap_g.closest_vertex_index \in c.wave
    THEN (CHOOSE g \in Geodesics :
              /\ g.s = c.snap_s.closest_vertex_index
              /\ g.t = c.snap_g.closest_vertex_index
              /\ g.vertices = V /\ g.faces = F).r
    ELSE [dist |-> Len0, path |-> Path(<<>>)]

\* lines 182-187: the solver returns and is dropped, the response is made
Finish(t) ==
    /\ q[t].pc = "solve"
    /\ SolverDone(faces, q[t])
    /\ q' = [q EXCEPT ![t] =
                AfterNavigableDistance(
                    [q[t] EXCEPT !.wave = {}],
                    Answered(q[t].snap_s, q[t].snap_g, Traced(vertices, faces, q[t])),
                    vis_dirpath # NoDir)]
    /\ UNCHANGED <<elsewhere, vertices, faces, vis_dirpath, dirs, files, history, started>>

NextWave ==
    \/ Call(1, "actual")
    \/ \E t \in Threads, r \in Responses : AnswerUpToSolver(t, r)
    \/ \E t \in Threads : Advance(t)
    \/ \E t \in Threads : Finish(t)
    \/ \E t \in Threads : Visualize(t)
    \/ \E t \in Threads : Return(t)
    \/ \E t \in Threads : Raise(t)

\* the solver runs in the thread of its caller, which does nothing else until
\* it returns: its rounds are taken once they can be
SpecWave ==
    /\ Init
    /\ [][NextWave]_vars
    /\ \A t \in Threads :
           /\ WF_vars(Advance(t)) /\ WF_vars(Finish(t))
           /\ WF_vars(Visualize(t)) /\ WF_vars(Return(t)) /\ WF_vars(Raise(t))

\* ------------------------------------------------------------------------
\* The locator on a mesh where the vertex nearest to a point and the vertex
\* nearest to its projection differ
\* ------------------------------------------------------------------------
\* A flat mesh of two triangles: one with the long edge from vertex 1 to
\* vertex 2, and a separate one whose corner, vertex 4, lies off that edge.
Notch ==
    [vertices |-> << <<0, 5, 0>>, <<10, 5, 0>>, <<5, 0, 0>>,
                     <<7, 11, 0>>, <<9, 13, 0>>, <<7, 14, 0>> >>,
     faces |-> << <<1, 2, 3>>, <<4, 5, 6>> >>]

\* positions of objects: off the long edge and nearer to vertex 4 than to any
\* other vertex; the same above the plane; the middle of the long edge; two
\* vertices
LocatePoints == { <<4, 8, 0>>, <<4, 8, 3>>, <<5, 5, 0>>, <<0, 5, 0>>, <<7, 11, 0>> }

\* the adapter's response for two objects at the positions a and b
AtPoints(a, b) == StrResp(TwoPoints(PointAt(a), PointAt(b)))

InitLocate ==
    /\ vertices = Notch.vertices /\ faces = Notch.faces
    /\ vis_dirpath = NoDir /\ dirs = {}
    /\ files = <<>>
    /\ q = [t \in Threads |-> IdleQ]
    /\ history = {}
    /\ started = 0
    /\ Elsewhere

NextLocate ==
    \/ Call(1, "actual")
    \/ \E t \in Threads, a \in LocatePoints, b \in LocatePoints : Answer(t, AtPoints(a, b))
    \/ \E t \in Threads : Return(t)

SpecLocate == InitLocate /\ [][NextLocate]_vars


\* ------------------------------------------------------------------------
\* The operations called with queries of their callers
\* ------------------------------------------------------------------------
\* what a caller may ask, with and without blanks around it
Queries == { <<"b", "e", "d">>, <<" ", "b", "e", "d", " ">> }

CallWith(t, o, query) == AllIdle /\ Ask(t, o, query)

NextAsk ==
    \/ \E o \in Ops, query \in Queries : CallWith(1, o, query)
    \/ \E t \in Threads, r \in ConcResponses : Answer(t, r)
    \/ \E t \in Threads : Visualize(t)
    \/ \E t \in Threads : Return(t)
    \/ \E t \in Threads : Raise(t)

SpecAsk == Init /\ [][NextAsk]_vars


\* ------------------------------------------------------------------------
\* TextPlugin and ImagePlugin: the index and the room filter
\* ------------------------------------------------------------------------
\* the navigation plugin's share of the state
navigation == <<vertices, faces, vis_dirpath, q, history, started>>
NoNavigation ==
    /\ vertices = <<>> /\ faces = <<>>
    /\ vis_dirpath = NoDir
    /\ q = [t \in Threads |-> IdleQ]
    /\ history = {}
    /\ started = 0

Kinds == {"text", "image"}
\* the directories the plugins of a scene are constructed on
PersistDir(kind) == IF kind = "text" THEN ".TEXT_DIR" ELSE ".IMAGE_DIR"
DataDir(kind) == IF kind = "text" THEN "text_data" ELSE "img_data"

\* the room names a data directory may hold: the stems of its .txt files,
\* the names of its subdirectories of images
RoomNames == {"kitchen", "None"}
\* the documents of a data directory, each known by its room_name
load_documents(content) == content

\* the branch _get_index takes: text_dir is None, or a path that is or is not
\* a directory
IndexBranchDataFirst(persist_is_dir, given, data_is_dir) ==
    IF given /\ data_is_dir THEN "build"
    ELSE IF persist_is_dir THEN "load"
    ELSE "raise"

IndexBranch(persist_is_dir, given, data_is_dir) ==
    IF persist_is_dir THEN "load"
    ELSE IF given /\ data_is_dir THEN "build"
    ELSE "raise"

NoFilter == [on |-> FALSE]
\* the object under construction: _rooms = set(), no index yet
NewPlugin(kind, data_dir) ==
    [made |-> "new", op |-> "construct", kind |-> kind, data_dir |-> data_dir,
     _rooms |-> {}, _index |-> {}, read |-> {}, exc |-> "ok",
     response |-> "", filters |-> NoFilter, retrieved |-> {}]

\* _get_index(persist_dir, data_dir) on the directories D with contents Fs:
\* the object it leaves and the directories after it
get_index(D, Fs, kind, persist_dir, data_dir) ==
    LET branch == IndexBranch(persist_dir \in D, data_dir # NoDir, data_dir \in D)
        new == NewPlugin(kind, data_dir)
    IN  CASE branch = "load" ->
               [object |-> [new EXCEPT !.made = "loaded",
                                       !._rooms = Fs[persist_dir],
                                       !._index = Fs[persist_dir],
                                       !.read = {persist_dir}],
                D |-> D, Fs |-> Fs]
          [] branch = "build" ->
               LET docs == load_documents(Fs[data_dir])
               IN  [object |-> [new EXCEPT !.made = "built",
                                           !._rooms = docs,
                                           !._index = docs,
                                           !.read = {data_dir}],
                    D |-> D \cup {persist_dir},
                    Fs |-> (persist_dir :> docs) @@ Fs]
          [] OTHER ->
               [object |-> [new EXCEPT !.made = "failed",
                                       !.exc = "FileNotFoundError"],
                D |-> D, Fs |-> Fs]

\* TextPlugin(...) or ImagePlugin(...), with or without a data directory
Construct(kind, given) ==
    LET r == get_index(dirs, files, kind, PersistDir(kind),
                       IF given THEN DataDir(kind) ELSE NoDir)
    IN  /\ plugin' = r.object
        /\ dirs' = r.D
        /\ files' = r.Fs
        /\ UNCHANGED <<navigation, runner, handler>>

\* the filter of _get_query_engine and _get_retiever on the chat's response
MetadataFilterOfAnyAnswer(rooms, response) ==
    IF response = "None" THEN NoFilter
    ELSE [on |-> TRUE, key |-> "room_name", value |-> response]

MetadataFilter(rooms, response) ==
    IF response = "None" \/ response \notin rooms THEN NoFilter
    ELSE [on |-> TRUE, key |-> "room_name", value |-> response]

\* the documents of the index that pass the filter
Retrieved(index, filters) ==
    IF filters.on THEN {d \in index : d = filters.value} ELSE index

\* what the chat may answer to the metadata prompt
ChatAnswers == {"None", "kitchen", "Kitchen", "attic"}

\* get_descriptive_response / get_visual_response on a constructed plugin;
\* the image plugin takes the first retrieved image
Respond(response) ==
    /\ plugin # Absent
    /\ plugin.made \in {"loaded", "built"}
    /\ LET filters == MetadataFilter(plugin._rooms, response)
           found == Retrieved(plugin._index, filters)
       IN  plugin' = [plugin EXCEPT !.op = "respond",
                                    !.response = response,
                                    !.filters = filters,
                                    !.retrieved = found,
                                    !.exc = IF plugin.kind = "image" /\ found = {}
                                            THEN "IndexError" ELSE "ok"]
    /\ UNCHANGED <<navigation, runner, handler, dirs, files>>

\* between two runs the data of a scene is put in place or replaced
Provide(kind, content) ==
    /\ dirs' = dirs \cup {DataDir(kind)}
    /\ files' = (DataDir(kind) :> content) @@ files
    /\ UNCHANGED <<navigation, plugin, runner, handler>>

InitRag ==
    /\ NoNavigation
    /\ dirs = {} /\ files = <<>>
    /\ plugin = Absent /\ runner = Absent /\ handler = Absent

NextRag ==
    \/ \E kind \in Kinds, given \in BOOLEAN : Construct(kind, given)
    \/ \E response \in ChatAnswers : Respond(response)
    \/ \E kind \in Kinds, content \in SUBSET RoomNames : Provide(kind, content)

SpecRag == InitRag /\ [][NextRag]_vars


\* ------------------------------------------------------------------------
\* The batch runners (sk_rag.py, rag3dchat_call.py)
\* ------------------------------------------------------------------------
Programs == {"sk_rag", "rag3dchat_call"}
\* the members of Scene, in the order of the enumeration
Scenes == <<"scene_1", "scene_2">>

QuestionsPath(program, scene) ==
    IF program = "rag3dchat_call" THEN "data/questions.json"
    ELSE IF scene = "scene_1" THEN "data/scene_1/questions.json"
    ELSE "data/scene_2/questions.json"

AnswersPath(program, scene) ==
    IF program = "rag3dchat_call" THEN "data/answers.json"
    ELSE IF scene = "scene_1" THEN "results/scene_1/answers.json"
    ELSE "results/scene_2/answers.json"

\* the directory of the answers file; no step of the runners creates it
AnswersDir(program, scene) ==
    IF program = "rag3dchat_call" THEN "data"
    ELSE IF scene = "scene_1" THEN "results/scene_1"
    ELSE "results/scene_2"

\* a questions file: the numbers of its questions, in the order of the file
Questions == [valid |-> TRUE, entries |-> <<"1", "2">>]
\* the final answers a planner may give
FinalAnswers == {"a", "b"}
\* a file opened for writing and not written to its end is no JSON document
Truncated == [valid |-> FALSE, entries |-> <<>>]
Json(answers) == [valid |-> TRUE, entries |-> answers]

InRun == runner # Absent /\ runner.made = "running"

\* python main of a runner, from its first line
Run(program) ==
    /\ ~InRun
    /\ runner' = [made |-> "running", program |-> program, scene |-> 1,
                  pc |-> "scene", answers |-> <<>>, loaded |-> {},
                  asked |-> {}, todo |-> <<>>, log |-> "start"]
    /\ UNCHANGED <<navigation, plugin, handler, dirs, files>>

NextScene(r, line) ==
    [r EXCEPT !.scene = @ + 1, !.pc = "scene", !.answers = <<>>,
              !.loaded = {}, !.asked = {}, !.todo = <<>>, !.log = line]

\* one iteration of `for scene_choice in Scene` up to the loop over the
\* questions: the questions are read, the planner of the scene is made
\* (planner_made: whether its construction returned), the answers are read
BeginScene(planner_made) ==
    /\ InRun /\ runner.pc = "scene" /\ runner.scene <= Len(Scenes)
    /\ LET scene == Scenes[runner.scene]
           questions_path == QuestionsPath(runner.program, scene)
           answers_path == AnswersPath(runner.program, scene)
       IN  runner' =
             IF questions_path \notin DOMAIN files
             THEN NextScene(runner, IF runner.program = "rag3dchat_call"
                                     THEN "No questions found"
                                     ELSE "Tests interrupted")
             ELSE IF ~planner_made
             THEN NextScene(runner, "Tests interrupted")
             ELSE IF answers_path \in DOMAIN files /\ ~files[answers_path].valid
             THEN NextScene(runner, "Tests interrupted")
             ELSE LET answers == IF answers_path \in DOMAIN files
                                 THEN files[answers_path].entries ELSE <<>>
                  IN  [runner EXCEPT !.pc = "question",
                                     !.answers = answers,
                                     !.loaded = DOMAIN answers,
                                     !.asked = {},
                                     !.todo = files[questions_path].entries,
                                     !.log = "Testing"]
    /\ UNCHANGED <<navigation, plugin, handler, dirs, files>>

\* `if nr in answers: continue`
Skip ==
    /\ InRun /\ runner.pc = "question" /\ runner.todo # <<>>
    /\ Head(runner.todo) \in DOMAIN runner.answers
    /\ runner' = [runner EXCEPT !.todo = Tail(@), !.log = "continue"]
    /\ UNCHANGED <<navigation, plugin, handler, dirs, files>>

\* the body of the loop for a question not answered yet. The planner raises
\* or returns final; answers[nr] = final; the file is opened for writing
\* (FileNotFoundError without its directory), which empties it, and the
\* answers are dumped: written "ok", "OSError" when the device fails the
\* write, "killed" when the process is ended during it
Answering(outcome, final, written) ==
    /\ InRun /\ runner.pc = "question" /\ runner.todo # <<>>
    /\ Head(runner.todo) \notin DOMAIN runner.answers
    /\ LET nr == Head(runner.todo)
           scene == Scenes[runner.scene]
           answers_path == AnswersPath(runner.program, scene)
           answers == (nr :> final) @@ runner.answers
           sent == [runner EXCEPT !.asked = @ \cup {nr}, !.todo = Tail(@)]
       IN  CASE outcome = "raises" ->
                  /\ runner' = [sent EXCEPT !.log = "Error with question"]
                  /\ files' = files
             [] outcome = "returns"
                  /\ AnswersDir(runner.program, scene) \notin dirs ->
                  /\ runner' = [sent EXCEPT
                                  !.answers = answers,
                                  !.log = "Error with question"]
                  /\ files' = files
             [] outcome = "returns"
                  /\ AnswersDir(runner.program, scene) \in dirs
                  /\ written = "ok" ->
                  /\ runner' = [sent EXCEPT !.answers = answers, !.log = "answer"]
                  /\ files' = (answers_path :> Json(answers)) @@ files
             [] outcome = "returns"
                  /\ AnswersDir(runner.program, scene) \in dirs
                  /\ written = "OSError" ->
                  /\ runner' = [sent EXCEPT
                                  !.answers = answers,
                                  !.log = "Error with question"]
                  /\ files' = (answers_path :> Truncated) @@ files
             [] OTHER ->
                  /\ runner' = [made |-> "interrupted", program |-> runner.program,
                                log |-> "killed"]
                  /\ files' = (answers_path :> Truncated) @@ files
    /\ UNCHANGED <<navigation, plugin, handler, dirs>>

\* the questions of the scene are exhausted
EndScene ==
    /\ InRun /\ runner.pc = "question" /\ runner.todo = <<>>
    /\ runner' = NextScene(runner, "scene done")
    /\ UNCHANGED <<navigation, plugin, handler, dirs, files>>

\* the scenes are exhausted
EndRun ==
    /\ InRun /\ runner.pc = "scene" /\ runner.scene > Len(Scenes)
    /\ runner' = [made |-> "finished", program |-> runner.program, log |-> "end"]
    /\ UNCHANGED <<navigation, plugin, handler, dirs, files>>

\* the process is ended between two steps
Interrupt ==
    /\ InRun
    /\ runner' = [made |-> "interrupted", program |-> runner.program,
                  log |-> "killed"]
    /\ UNCHANGED <<navigation, plugin, handler, dirs, files>>

\* the working directory of a run: data/ with the questions of each scene or
\* of none, results/<scene>/ made by hand or not
InitRun ==
    /\ NoNavigation
    /\ plugin = Absent /\ handler = Absent /\ runner = Absent
    /\ \E Q \in SUBSET {"data/questions.json", "data/scene_1/questions.json",
                        "data/scene_2/questions.json"} :
           files = [p \in Q |-> Questions]
    /\ \E R \in SUBSET {"results/scene_1", "results/scene_2"} :
           dirs = {"data"} \cup R

NextRun ==
    \/ \E program \in Programs : Run(program)
    \/ \E planner_made \in BOOLEAN : BeginScene(planner_made)
    \/ Skip
    \/ \E outcome \in {"raises", "returns"}, final \in FinalAnswers,
          written \in {"ok", "OSError", "killed"} :
           Answering(outcome, final, written)
    \/ EndScene
    \/ EndRun
    \/ Interrupt

SpecRun == InitRun /\ [][NextRun]_vars


\* ------------------------------------------------------------------------
\* ConfigHandler (core/config_handler.py)
\* ------------------------------------------------------------------------
\* the values of ConfigPrefix
ConfigPrefixes == {"TEXT", "IMG", "NAV", "SQL", "CHAT"}

\* the fields of Config with the suffixes of their keys
ConfigFields ==
    [api_key |-> "_API_KEY", endpoint |-> "_ENDPOINT",
     llm_deployment |-> "_LLM_DEPLOYMENT_NAME", llm_model |-> "_LLM_MODEL_NAME",
     embed_deployment |-> "_EMBED_DEPLOYMENT_NAME",
     embed_model |-> "_EMBED_MODEL_NAME", api_version |-> "_API_VERSION",
     temperature |-> "_TEMPERATURE"]

\* f"{params_type.value}_API_KEY" and the like
Key(prefix, suffix) == <<prefix, suffix>>

StrValue(s) == [type |-> "str", s |-> s]
NoneValue == [type |-> "NoneType", s |-> "None"]
FloatValue(s) == [type |-> "float", s |-> s]

\* dict.get(key, default)
Get(d, key, default) == IF key \in DOMAIN d THEN d[key] ELSE default

\* what dotenv_values may read from the dotenv file: nothing, the keys of
\* one prefix (one of them without a value), keys of several prefixes
Dotenvs ==
    { <<>>,
      (Key("TEXT", "_API_KEY") :> StrValue("key-1"))
        @@ (Key("TEXT", "_TEMPERATURE") :> StrValue("0.7"))
        @@ (Key("TEXT", "_ENDPOINT") :> NoneValue),
      (Key("CHAT", "_API_KEY") :> StrValue("key-2"))
        @@ (Key("CHAT", "_LLM_MODEL_NAME") :> StrValue("gpt"))
        @@ (Key("IMG", "_API_KEY") :> StrValue("key-1"))
        @@ (Key("NAV", "_TEMPERATURE") :> StrValue("0.1")) }

\* Config(api_key=..., ..., temperature=...) of a prefix
NewConfig(config, prefix) ==
    [f \in DOMAIN ConfigFields |->
        Get(config, Key(prefix, ConfigFields[f]),
            IF f = "temperature" THEN FloatValue("0.1") ELSE NoneValue)]

\* ConfigHandler(env_file); objects holds the Config objects made, an
\* object being known by its place in it
NewHandler(config) ==
    [made |-> "handler", _config |-> config, _retrieved_configs |-> <<>>,
     objects |-> <<>>, params_type |-> "None", returned |-> 0]

\* get_config without the test of line 55
get_configAnew(h, prefix) ==
    LET config == NewConfig(h._config, prefix)
        id == Len(h.objects) + 1
    IN  [h EXCEPT !.objects = Append(@, config),
                  !._retrieved_configs = (prefix :> id) @@ @,
                  !.params_type = prefix,
                  !.returned = id]

\* get_config(params_type) on the handler h: the handler after the call
get_config(h, prefix) ==
    IF prefix \notin DOMAIN h._retrieved_configs
    THEN LET config == NewConfig(h._config, prefix)
             id == Len(h.objects) + 1
         IN  [h EXCEPT !.objects = Append(@, config),
                       !._retrieved_configs = (prefix :> id) @@ @,
                       !.params_type = prefix,
                       !.returned = id]
    ELSE [h EXCEPT !.params_type = prefix,
                   !.returned = h._retrieved_configs[prefix]]

GetConfig(prefix) ==
    /\ handler # Absent
    /\ handler' = get_config(handler, prefix)
    /\ UNCHANGED <<navigation, plugin, runner, dirs, files>>

InitConfig ==
    /\ NoNavigation
    /\ dirs = {} /\ files = <<>>
    /\ plugin = Absent /\ runner = Absent
    /\ \E config \in Dotenvs : handler = NewHandler(config)

NextConfig == \E prefix \in ConfigPrefixes : GetConfig(prefix)

SpecConfig == InitConfig /\ [][NextConfig]_vars


\* ------------------------------------------------------------------------
\* Properties
\* ------------------------------------------------------------------------
Range(f) == {f[i] : i \in 1..Len(f)}

\* the calls past extraction: completed, or still before their return
Running == {Completed(q[t], "running") : t \in {u \in Threads : q[u].pc \in {"vis", "ret", "exc"}}}
Past == history \cup Running

IsDistanceMsg(m) ==
    /\ Len(m) = 3
    /\ m[1] = "The distance between specified points is "
    /\ m[3] = " meters."
    /\ m[2].k \in {"len", "nan", "inf"}

\* the fields of a response between its commas, parentheses dropped
Fields(s) == Split(RemoveChar(RemoveChar(s, "("), ")"))

\* fields that are not a whole number of coordinate triples
NoTriplesIn(fields) ==
    \/ Len(fields) % 3 # 0
    \/ \E i \in 1..Len(fields) : ParseFloat(fields[i]) = ValueError

\* the response is the sentinel, or does not parse into coordinate triples
NoTriples(r) ==
    \/ r.type # "str"
    \/ r.s = SentinelNone
    \/ NoTriplesIn(Fields(r.s))

\* the responses of the adapter that hold no coordinate triples
Unparsable == {r \in Responses \cup ConcResponses : NoTriples(r)}

\* the operation answered with the extraction failure, and raised nothing
ExtractionFailed(c) ==
    /\ c.response = ExtractionFailedMsg
    /\ c.exc = ""
    /\ c.outcome \in {"returned", "running"}
    /\ c.calls = <<"llm">>

\* C1: for both operations, when the adapter's response is the sentinel "None"
\* or cannot be parsed into coordinate triples, the operation returns the
\* fixed extraction-failure message and raises nothing; both cases alike.
C1_ExtractionFailureIsAnswered ==
    \A c \in Past : c.llm \in Unparsable => ExtractionFailed(c)

C1_Witness ==
    \E c1 \in history, c2 \in Running :
        /\ c1.llm = StrResp(SentinelNone)
        /\ c2.llm.type = "str" /\ c2.llm.s # SentinelNone /\ c2.llm \in Unparsable
        /\ c1.op = "actual" /\ c2.op = "line"
        /\ c1.outcome = "returned"
        /\ c1.response = c2.response

NoPath(path) == path.isNone \/ path.pts = <<>>

\* C2: when the solver finds no path, get_actual_distance_from_query returns
\* the not-navigable message as a normal return value and no exception
\* reaches the caller, with or without a visualization directory.
C2_UnreachableIsReturned ==
    \A c \in history :
        (c.op = "actual" /\ "solve" \in Range(c.calls) /\ NoPath(c.path)) =>
            (c.outcome = "returned" /\ c.response = NotNavigableMsg)

\* C3: when the visualizer raises during a navigable-distance query, the
\* query still returns the distance result it had computed.
C3_VisualizerFailureNotPropagated ==
    \A c \in history :
        (c.op = "actual" /\ IsDistanceMsg(c.response)) => c.outcome = "returned"

\* C4 as stated: a navigable-distance query never invokes the visualizer and
\* never writes a file.
C4_NoSideEffect ==
    /\ DOMAIN files = {}
    /\ \A c \in Past : "vis" \notin Range(c.calls)

\* C4, amended: without a visualization directory a query invokes no
\* visualizer and writes no file; with one, the service itself invokes the
\* visualizer, once and after the answer is computed, and every file of the
\* directory is the figure of such a query, under the name made of its points.
C4_DirectoryDecidesSideEffect ==
    /\ vis_dirpath = NoDir =>
           (DOMAIN files = {} /\ \A c \in Past : "vis" \notin Range(c.calls))
    /\ \A c \in Past :
           "vis" \in Range(c.calls) =>
               /\ c.op = "actual"
               /\ c.calls = <<"llm", "locate", "locate", "solve", "vis">>
    /\ \A c \in history :
           (vis_dirpath # NoDir /\ "solve" \in Range(c.calls)) => "vis" \in Range(c.calls)
    /\ \A f \in DOMAIN files :
           \E c \in Past : "vis" \in Range(c.calls) /\ c.filename = f

C4_Witness ==
    /\ vis_dirpath = NoDir
    /\ \E c \in history : c.op = "actual" /\ IsDistanceMsg(c.response)
    /\ \E c \in Running : c.op = "actual" /\ c.response = NotNavigableMsg

OutcomeTags == {"NAVIGABLE", "UNREACHABLE", "EXTRACTION_FAILED"}

HasTag(m, tag) ==
    CASE tag = "NAVIGABLE" -> IsDistanceMsg(m)
      [] tag = "UNREACHABLE" -> m = NotNavigableMsg
      [] tag = "EXTRACTION_FAILED" -> m = ExtractionFailedMsg

\* C5: every string a public operation returns is an instance of exactly one
\* of the three templates (distance, not navigable, extraction failed), for
\* every response of the adapter; a query past extraction has its answer.
C5_OneOfThreeTemplates ==
    \A c \in Past :
        /\ c.exc = "" => c.response # <<>>
        /\ c.outcome = "returned" => c.response # <<>>
        /\ c.response # <<>> =>
               Cardinality({tag \in OutcomeTags : HasTag(c.response, tag)}) = 1

C5_Witness ==
    \E c1 \in history, c2 \in Running :
        /\ c1.outcome = "returned" /\ HasTag(c1.response, "NAVIGABLE")
        /\ c1.dist.k = "nan"
        /\ HasTag(c2.response, "UNREACHABLE")

\* C6: a query point with a NaN or infinite coordinate makes
\* navigable_distance fail with InvalidInput: the point reaches neither the
\* locator nor the solver and no distance message is produced.
C6_NonFiniteIsInvalidInput ==
    \A c \in Past :
        (/\ c.op = "actual"
         /\ IsArray(c.start) /\ IsArray(c.goal)
         /\ ~(FiniteVec(c.start) /\ FiniteVec(c.goal))) =>
            /\ "locate" \notin Range(c.calls)
            /\ "solve" \notin Range(c.calls)
            /\ ~IsDistanceMsg(c.response)

\* C7: a response is accepted as coordinates only when it encodes exactly two
\* points; any other number of points ends in the extraction failure.
C7_ExactlyTwoPoints ==
    \A c \in Past :
        (c.llm.type = "str" /\ c.llm.s # SentinelNone /\ Len(Fields(c.llm.s)) # 6) =>
            (c.response = ExtractionFailedMsg /\ ~IsArray(c.start))

\* a set of vertices no face leaves: a face that touches it lies within it
ClosedUnderFaces(F, S) ==
    \A f \in 1..Len(F) : FaceVerts(F, f) \cap S # {} => FaceVerts(F, f) \subseteq S

\* the sets of vertices of each mesh that no face leaves
ClosedSets ==
    [m \in AllMeshes |-> {S \in SUBSET (1..Len(m.vertices)) : ClosedUnderFaces(m.faces, S)}]

\* b is in the connected component of a: in every such set that holds a
SameComponent(V, F, a, b) ==
    \A S \in ClosedSets[[vertices |-> V, faces |-> F]] : a \in S => b \in S

\* C8: for vertices in disjoint connected components the solver reports no
\* path, whatever queries the engine answered before.
C8_DisjointComponentsUnreachable ==
    \A c \in Past :
        (/\ "solve" \in Range(c.calls)
         /\ ~SameComponent(vertices, faces, c.snap_s.closest_vertex_index,
                           c.snap_g.closest_vertex_index)) =>
            /\ c.path = Path(<<>>)
            /\ c.response = NotNavigableMsg

C8_Witness ==
    \E c1 \in history, c2 \in Running :
        /\ IsDistanceMsg(c1.response) /\ "solve" \in Range(c1.calls)
        /\ "solve" \in Range(c2.calls)
        /\ c2.snap_s.closest_vertex_index = c1.snap_s.closest_vertex_index
        /\ ~SameComponent(vertices, faces, c2.snap_s.closest_vertex_index,
                          c2.snap_g.closest_vertex_index)
        /\ c2.path = Path(<<>>)

\* C9: calls of navigable_distance with identical points on the same engine
\* give identical distances and identical path point sequences, whatever was
\* asked in between.
C9_SameInputsSameResult ==
    \A c1 \in Past, c2 \in Past :
        (/\ "solve" \in Range(c1.calls) /\ "solve" \in Range(c2.calls)
         /\ c1.start = c2.start /\ c1.goal = c2.goal) =>
            /\ c1.dist = c2.dist
            /\ c1.path = c2.path
            /\ c1.response = c2.response

C9_Witness ==
    \E c1 \in history, c2 \in Running :
        /\ "solve" \in Range(c1.calls) /\ "solve" \in Range(c2.calls)
        /\ c1.start = c2.start /\ c1.goal = c2.goal
        /\ c1.llm # c2.llm
        /\ Len(c2.path.pts) = 3
        /\ c1.path = c2.path

\* the figure a query writes
Figure(c) ==
    <<[mesh |-> <<vertices, faces>>, waypoints |-> c.path,
       points |-> MarkerPoints(c.start, c.goal, c.snap_s, c.snap_g)]>>

\* C10: in every interleaving of simultaneous queries each query returns the
\* result, and leaves the artifact, it would when run alone: the file it wrote
\* holds its own figure when it returns.
C10_ConcurrentAsAlone ==
    /\ C9_SameInputsSameResult
    /\ \A t \in Threads :
           (q[t].pc = "ret" /\ q[t].filename # <<>>) =>
               /\ q[t].filename \in DOMAIN files
               /\ files[q[t].filename] = Figure(q[t])

\* C11: the mesh is set at construction and no operation changes it: no step
\* of a query, of the locator, the solver or the visualizer writes the vertex
\* or the face array.
C11_MeshReadOnly == [][vertices' = vertices /\ faces' = faces]_vars

C11_Witness ==
    /\ [vertices |-> vertices, faces |-> faces] \in Meshes
    /\ \E c \in history : c.op = "actual" /\ c.filename \in DOMAIN files
    /\ \E c \in Running : "solve" \in Range(c.calls)

\* what outlives a query: the fields of the plugin and the directory
Engine == <<vertices, faces, vis_dirpath, dirs, files>>

\* a query that ended in a failure: no positions extracted, or an exception
Failed(c) == c.outcome = "raised" \/ c.response = ExtractionFailedMsg

ValidIndex(i) == i \in 1..Len(vertices)

\* the responses of the adapter that hold no two positions
WithoutTwoPoints ==
    {r \in Responses \cup ConcResponses : r \in Unparsable \/ Len(Fields(r.s)) < 6}

\* the answer the mesh and the adapter's response call for
AnsweredFromMesh(c) ==
    IF c.llm \in WithoutTwoPoints THEN ExtractionFailed(c)
    ELSE IF c.op = "line" THEN c.response = DistanceMsg(c.dist) /\ c.exc = ""
    ELSE /\ "solve" \in Range(c.calls)
         /\ ValidIndex(c.snap_s.closest_vertex_index)
         /\ ValidIndex(c.snap_g.closest_vertex_index)
         /\ IsDistanceMsg(c.response) <=>
                SameComponent(vertices, faces, c.snap_s.closest_vertex_index,
                              c.snap_g.closest_vertex_index)
         /\ ~IsDistanceMsg(c.response) => c.response = NotNavigableMsg

\* C12: a query that ends in a failure (no positions extracted, or an
\* exception) leaves the engine as it was: it wrote no file, the only step
\* that changes what outlives a query is a visualization that succeeded, and
\* the query made after the failed one is answered from the mesh as loaded.
C12_FailureLeavesEngine ==
    /\ [](\A f \in history : Failed(f) =>
              /\ f.filename = <<>>
              /\ \A c \in Running : AnsweredFromMesh(c))
    /\ [][Engine' # Engine => \E t \in Threads : q[t].pc = "vis" /\ q'[t].pc = "ret"]_vars

C12_Witness ==
    \E f \in history, c \in Running :
        /\ f.outcome = "raised"
        /\ c.op = "actual" /\ IsDistanceMsg(c.response) /\ Len(c.path.pts) = 3
        /\ c.start = f.start

\* C13: a public operation that asked the adapter for the positions always
\* comes to its end, also when the adapter never answers.
C13_QueryEnds == \A t \in Threads : (q[t].pc = "llm") ~> (q[t].pc = "idle")

\* C14: construction fails on a mesh without vertices or without faces, so
\* every query that was answered was answered by a plugin whose mesh has at
\* least one vertex and one face.
C14_NoEngineOnEmptyMesh ==
    \A c \in history :
        c.outcome = "returned" => (Len(vertices) > 0 /\ Len(faces) > 0)

\* C15: the shortest path from a vertex to itself has distance 0 and the one
\* point of the vertex; a query whose two points snap to the same vertex is
\* answered with the distance message for 0.
C15_SameVertexDistanceZero ==
    \A c \in Past :
        (/\ "solve" \in Range(c.calls)
         /\ c.snap_s.closest_vertex_index = c.snap_g.closest_vertex_index) =>
            /\ c.dist = [k |-> "len", runs |-> <<>>]
            /\ c.path = Path(<<Hom(vertices[c.snap_s.closest_vertex_index])>>)
            /\ c.response = DistanceMsg([k |-> "len", runs |-> <<>>])

C15_Witness ==
    \E c1 \in history, c2 \in Running :
        /\ "solve" \in Range(c1.calls) /\ "solve" \in Range(c2.calls)
        /\ c1.snap_s.closest_vertex_index = c1.snap_g.closest_vertex_index
        /\ c2.snap_s.closest_vertex_index = c2.snap_g.closest_vertex_index
        /\ c1.snap_s.closest_vertex_index # c2.snap_s.closest_vertex_index
        /\ c2.response = DistanceMsg(Len0)

\* C16: for two vertices of one connected component the distance of the
\* shortest path from the one to the other equals the distance back.
C16_DistanceSymmetric ==
    \A c1 \in Past, c2 \in Past :
        (/\ "solve" \in Range(c1.calls) /\ "solve" \in Range(c2.calls)
         /\ c1.snap_s.closest_vertex_index = c2.snap_g.closest_vertex_index
         /\ c1.snap_g.closest_vertex_index = c2.snap_s.closest_vertex_index
         /\ SameComponent(vertices, faces, c1.snap_s.closest_vertex_index,
                          c1.snap_g.closest_vertex_index)) =>
            /\ IsDistanceMsg(c1.response) /\ IsDistanceMsg(c2.response)
            /\ c1.dist = c2.dist

C16_Witness ==
    \E c1 \in history, c2 \in Running :
        /\ "solve" \in Range(c1.calls) /\ "solve" \in Range(c2.calls)
        /\ c1.snap_s.closest_vertex_index = c2.snap_g.closest_vertex_index
        /\ c1.snap_g.closest_vertex_index = c2.snap_s.closest_vertex_index
        /\ c1.snap_s.closest_vertex_index # c1.snap_g.closest_vertex_index
        /\ Len(c1.dist.runs) = 2
        /\ c1.dist = c2.dist

\* the sum of the roots of the runs against the root of sq
SumOfRootsGeq(runs, sq) ==
    CASE Len(runs) = 0 -> sq = 0
      [] Len(runs) = 1 -> runs[1] >= sq
      [] Len(runs) = 2 ->
            \/ runs[1] + runs[2] >= sq
            \/ 4 * runs[1] * runs[2] >= (sq - runs[1] - runs[2]) * (sq - runs[1] - runs[2])

SumOfRootsGt(runs, sq) ==
    CASE Len(runs) = 0 -> FALSE
      [] Len(runs) = 1 -> runs[1] > sq
      [] Len(runs) = 2 ->
            \/ runs[1] + runs[2] > sq
            \/ 4 * runs[1] * runs[2] > (sq - runs[1] - runs[2]) * (sq - runs[1] - runs[2])

\* the square of the straight-line distance between vertices a and b, as the
\* straight-line operation computes it
StraightLineSq(V, a, b) ==
    IF Norm(FloatVec(V[a]), FloatVec(V[b])).runs = <<>> THEN 0
    ELSE Norm(FloatVec(V[a]), FloatVec(V[b])).runs[1]

Midpoint(u, v) == [i \in 1..3 |-> (u[i] + v[i]) \div 2]

\* the straight segment between vertices a and b leaves the mesh: its
\* midpoint is off every face
GapBetween(V, F, a, b) ==
    SignedDistanceClosest(V, F, FloatVec(Midpoint(V[a], V[b]))) # Hom(Midpoint(V[a], V[b]))

\* C17: for two vertices of one connected component the geodesic distance is
\* at least the straight-line distance between their positions, and greater
\* when a gap in the mesh lies between them.
C17_GeodesicAtLeastStraight ==
    \A c \in Past :
        (/\ "solve" \in Range(c.calls)
         /\ SameComponent(vertices, faces, c.snap_s.closest_vertex_index,
                          c.snap_g.closest_vertex_index)) =>
            /\ c.dist.k = "len"
            /\ SumOfRootsGeq(c.dist.runs,
                   StraightLineSq(vertices, c.snap_s.closest_vertex_index,
                                  c.snap_g.closest_vertex_index))
            /\ GapBetween(vertices, faces, c.snap_s.closest_vertex_index,
                          c.snap_g.closest_vertex_index) =>
                   SumOfRootsGt(c.dist.runs,
                       StraightLineSq(vertices, c.snap_s.closest_vertex_index,
                                      c.snap_g.closest_vertex_index))

C17_Witness ==
    \E c1 \in history, c2 \in Running :
        /\ "solve" \in Range(c1.calls) /\ "solve" \in Range(c2.calls)
        /\ GapBetween(vertices, faces, c1.snap_s.closest_vertex_index,
                      c1.snap_g.closest_vertex_index)
        /\ IsDistanceMsg(c1.response) /\ Len(c1.path.pts) = 3
        /\ ~GapBetween(vertices, faces, c2.snap_s.closest_vertex_index,
                       c2.snap_g.closest_vertex_index)
        /\ Len(c2.dist.runs) = 1

\* the locator gave a vertex of the mesh
ValidSnap(snap) ==
    /\ ValidIndex(snap.closest_vertex_index)
    /\ snap.closest_vertex = vertices[snap.closest_vertex_index]
    /\ Len(snap.closest_point) = 4

\* the query point is off every face
OffMesh(p) == SignedDistanceClosest(vertices, faces, p) # Hom(IntVec(p))

\* C18: for a finite query point, however far from the mesh, the locator does
\* not fail and gives a valid vertex index; the two indices handed to the
\* solver are in range, so the solver rejects neither.
C18_LocateGivesValidIndex ==
    \A c \in Past :
        (c.op = "actual" /\ IsArray(c.start) /\ IsArray(c.goal)) =>
            /\ "locate" \in Range(c.calls)
            /\ FiniteVec(c.start) => ValidSnap(c.snap_s)
            /\ FiniteVec(c.goal) => ValidSnap(c.snap_g)
            /\ (FiniteVec(c.start) /\ FiniteVec(c.goal)) =>
                   ("solve" \in Range(c.calls) /\ ~c.path.isNone)

C18_Witness ==
    \E c \in Past :
        /\ c.op = "actual" /\ "solve" \in Range(c.calls)
        /\ FiniteVec(c.goal) /\ OffMesh(c.goal)
        /\ \E i \in 1..3 : c.goal[i].v < 0
        /\ ValidSnap(c.snap_g) /\ c.snap_g.closest_vertex_index = 6

\* the locator's result for a point that is the position of a vertex: that
\* vertex, and the point itself as surface point
SnappedOnto(p, snap) ==
    \A i \in DOMAIN vertices :
        vertices[i] = IntVec(p) =>
            /\ snap.closest_vertex_index = i
            /\ snap.closest_vertex = IntVec(p)
            /\ snap.closest_point = Hom(IntVec(p))
            /\ SqDistScaled(snap.closest_vertex, snap.closest_point) = 0

\* C19: for a query point that coincides with a vertex of the mesh the locator
\* returns that vertex, index and position, and the point itself as surface
\* point: no offset between query point, surface point and vertex.
C19_VertexSnapsToItself ==
    \A c \in Past :
        "locate" \in Range(c.calls) =>
            /\ FiniteVec(c.start) => SnappedOnto(c.start, c.snap_s)
            /\ FiniteVec(c.goal) => SnappedOnto(c.goal, c.snap_g)

C19_Witness ==
    \E c1 \in history, c2 \in Running :
        /\ "locate" \in Range(c1.calls) /\ "locate" \in Range(c2.calls)
        /\ IntVec(c1.start) = vertices[Len(vertices)]
        /\ c1.snap_s.closest_vertex_index = Len(vertices)
        /\ IntVec(c2.goal) = vertices[2] /\ c2.snap_g.closest_vertex_index = 2
        /\ c2.snap_g.closest_point = Hom(vertices[2])

\* the sum of the squares of the differences of the coordinates
SumOfSquares(a, b) ==
    (b[1].v - a[1].v) * (b[1].v - a[1].v) + (b[2].v - a[2].v) * (b[2].v - a[2].v)
        + (b[3].v - a[3].v) * (b[3].v - a[3].v)

\* C20: whenever two points were extracted the straight-line operation
\* answers with the distance message, without locator, solver or visualizer,
\* whether or not a path exists between the points; for finite points the
\* distance is the Euclidean norm of goal - start.
C20_StraightLineIsNorm ==
    \A c \in Past :
        (c.op = "line" /\ c.llm \notin WithoutTwoPoints) =>
            /\ IsArray(c.start) /\ IsArray(c.goal)
            /\ c.response = DistanceMsg(c.dist)
            /\ c.exc = "" /\ c.outcome \in {"returned", "running"}
            /\ c.calls = <<"llm">>
            /\ (FiniteVec(c.start) /\ FiniteVec(c.goal)) =>
                   /\ c.dist.k = "len"
                   /\ c.dist.runs = IF SumOfSquares(c.start, c.goal) = 0 THEN <<>>
                                    ELSE <<SumOfSquares(c.start, c.goal)>>

C20_Witness ==
    \E c1 \in history, c2 \in history :
        /\ c1.op = "line" /\ c2.op = "actual"
        /\ c1.outcome = "returned" /\ c2.outcome = "returned"
        /\ c1.start = c2.start /\ c1.goal = c2.goal
        /\ c2.response = NotNavigableMsg
        /\ c1.response = DistanceMsg([k |-> "len", runs |-> <<36>>])

\* the solver returned a distance with a path to a target its wavefront
\* reached, or an empty path, answered as not navigable
SolverReturned(c) ==
    /\ c.pc \in {"vis", "ret"}
    /\ c.wave = {}
    /\ ~c.path.isNone
    /\ \/ c.path.pts # <<>> /\ c.dist.k = "len" /\ IsDistanceMsg(c.response)
       \/ c.path.pts = <<>> /\ c.response = NotNavigableMsg

\* C21: every invocation of the solver ends: its wavefront reaches the target
\* and a distance with a path is returned, or it is exhausted and an empty
\* path is returned; no round goes on admitting what was admitted before.
C21_SolverTerminates ==
    \A t \in Threads : (q[t].pc = "solve") ~> SolverReturned(q[t])

\* a wavefront that went over its component without reaching the target, after
\* a query that found a path
C21_Witness ==
    \E t \in Threads :
        /\ q[t].pc = "solve"
        /\ Cardinality(q[t].wave) > 1
        /\ Admit(faces, q[t].wave) = q[t].wave
        /\ q[t].snap_g.closest_vertex_index \notin q[t].wave
        /\ \E c \in history : c.path.pts # <<>> /\ Len(c.dist.runs) > 0

\* the calls of a navigable-distance query up to its response: the adapter,
\* the locator for the start, the locator for the goal, the solver
UpToResponse == <<"llm", "locate", "locate", "solve">>

\* the path runs from the target back to the source, as the solver traces it
RunsBetween(path, source, target) ==
    /\ path.pts[1] = Hom(vertices[target])
    /\ path.pts[Len(path.pts)] = Hom(vertices[source])

\* C22: a navigable-distance query snaps both points before it calls the
\* solver, calls the solver once, from the vertex snapped from the start to
\* the vertex snapped from the goal, and its answer is the distance message
\* exactly when the solver returned a non-empty path, else the not-navigable
\* message.
C22_SnapThenSolveOnce ==
    \A c \in Past :
        "solve" \in Range(c.calls) =>
            /\ c.op = "actual"
            /\ SubSeq(c.calls, 1, 4) = UpToResponse
            /\ \A i \in 5..Len(c.calls) : c.calls[i] = "vis"
            /\ c.snap_s = SnapToClosestVertex(vertices, faces, c.start)
            /\ c.snap_g = SnapToClosestVertex(vertices, faces, c.goal)
            /\ ~c.path.isNone
            /\ c.path.pts # <<>> =>
                   /\ RunsBetween(c.path, c.snap_s.closest_vertex_index,
                                  c.snap_g.closest_vertex_index)
                   /\ c.response = DistanceMsg(c.dist)
            /\ c.path.pts = <<>> => c.response = NotNavigableMsg

\* a query answered with a distance between two different vertices, and one
\* answered as not navigable
C22_Witness ==
    \E c1 \in history, c2 \in history :
        /\ "solve" \in Range(c1.calls) /\ "solve" \in Range(c2.calls)
        /\ c1.snap_s.closest_vertex_index # c1.snap_g.closest_vertex_index
        /\ Len(c1.path.pts) > 1
        /\ c1.response = DistanceMsg(c1.dist)
        /\ c2.path.pts = <<>> /\ c2.response = NotNavigableMsg

\* cp is a point of a face, and no face has a point nearer to p
SurfaceClosest(p, cp) ==
    /\ \E f \in 1..Len(faces) : FaceClosest(vertices, faces, p, f) = cp
    /\ \A f \in 1..Len(faces) : ~Closer(p, FaceClosest(vertices, faces, p, f), cp)

\* no vertex is nearer to cp than vertex i, and none before i is as near
NearestVertex(cp, i) ==
    /\ ValidIndex(i)
    /\ \A j \in DOMAIN vertices :
           SqDistScaled(vertices[i], cp) <= SqDistScaled(vertices[j], cp)
    /\ \A j \in 1..(i - 1) :
           SqDistScaled(vertices[i], cp) < SqDistScaled(vertices[j], cp)

Located(point, snap) ==
    /\ SurfaceClosest(IntVec(point), snap.closest_point)
    /\ NearestVertex(snap.closest_point, snap.closest_vertex_index)
    /\ snap.closest_vertex = vertices[snap.closest_vertex_index]

\* C23: the vertex the locator returns is nearest to the surface-closest
\* point of the query point, not to the query point itself, over all vertices
\* of the mesh, and among the vertices at that distance it is the one with
\* the lowest index.
C23_NearestToProjectedPoint ==
    \A c \in Past :
        "locate" \in Range(c.calls) =>
            Located(c.start, c.snap_s) /\ Located(c.goal, c.snap_g)

\* a start whose nearest vertex is not the one nearest to its projection, and
\* a goal with several vertices nearest to its projection
C23_Witness ==
    \E c \in history :
        /\ "locate" \in Range(c.calls)
        /\ \E j \in DOMAIN vertices :
               SqDistScaled(vertices[j], Hom(IntVec(c.start)))
                   < SqDistScaled(vertices[c.snap_s.closest_vertex_index],
                                  Hom(IntVec(c.start)))
        /\ \E j \in DOMAIN vertices :
               /\ j > c.snap_g.closest_vertex_index
               /\ SqDistScaled(vertices[j], c.snap_g.closest_point)
                      = SqDistScaled(vertices[c.snap_g.closest_vertex_index],
                                     c.snap_g.closest_point)

\* the positions of the query were extracted
PositionsExtracted(c) == IsArray(c.start) /\ IsArray(c.goal)

\* C24: with a visualization directory, every navigable-distance query whose
\* positions were extracted calls the visualizer exactly once, after the
\* distance is computed, and an HTML file named after its points is written
\* in the directory; without a directory the visualizer is never called.
\* Stated for a directory that exists.
C24_VisualizerCalledOnceWritesFile ==
    /\ vis_dirpath = NoDir => \A c \in Past : "vis" \notin Range(c.calls)
    /\ vis_dirpath \in dirs =>
           \A c \in history :
               (c.op = "actual" /\ PositionsExtracted(c)) =>
                   /\ c.calls = UpToResponse \o <<"vis">>
                   /\ FileName(c.start, c.goal) \in DOMAIN files

\* the calls in progress, from the call of the adapter on
Called == {Completed(q[t], "running") : t \in {u \in Threads : q[u].pc # "idle"}}

\* C25: every call of a public operation invokes the extraction adapter
\* exactly once, with the navigation system prompt and the caller's query
\* unchanged, before any geometric step, and does not retry it; when the
\* extraction fails, neither the locator nor the solver nor the visualizer is
\* invoked.
C25_AdapterOnceWithQuery ==
    \A c \in history \cup Called :
        /\ c.asked = <<NAV_SYSTEM_PROMPT, c.query>>
        /\ c.calls[1] = "llm"
        /\ \A i \in 2..Len(c.calls) : c.calls[i] # "llm"
        /\ (c \in Past /\ ~PositionsExtracted(c)) => c.calls = <<"llm">>

\* a query with blanks around it whose extraction failed, after a query that
\* went through the locator and the solver
C25_Witness ==
    \E c1 \in history, c2 \in history :
        /\ "solve" \in Range(c1.calls)
        /\ c2.query[1] = " " /\ c2.asked[2] = c2.query
        /\ ~PositionsExtracted(c2) /\ c2.response = ExtractionFailedMsg
        /\ c2.calls = <<"llm">>

\* ---- C26 ----
\* a step that constructs a plugin of the kind
Constructs(kind) ==
    /\ plugin' # plugin
    /\ plugin'.op = "construct"
    /\ plugin'.kind = kind

\* the persist directory of the kind is a directory with the contents
Persisted(kind, D, Fs, content) ==
    PersistDir(kind) \in D /\ Fs[PersistDir(kind)] = content

\* C26: constructing a text or image plugin, if the persist directory exists
\* the index is loaded from it and the data directory is not read; otherwise,
\* if a data directory is given and exists, the index is built from it and
\* persisted, so that the persist directory exists afterwards with the built
\* index and a later construction loads it; if neither exists the
\* construction raises FileNotFoundError and persists nothing.
C26_LoadBuildOrRaise ==
    [][\A kind \in Kinds : Constructs(kind) =>
         LET pd == PersistDir(kind)
             dd == plugin'.data_dir
         IN  /\ pd \in dirs =>
                  /\ plugin'.made = "loaded"
                  /\ plugin'._index = files[pd]
                  /\ dd \notin plugin'.read
                  /\ dirs' = dirs /\ files' = files
             /\ (pd \notin dirs /\ dd \in dirs) =>
                  /\ plugin'.made = "built"
                  /\ plugin'._index = files[dd]
                  /\ Persisted(kind, dirs', files', files[dd])
                  /\ IndexBranch(pd \in dirs', dd # NoDir, dd \in dirs') = "load"
             /\ (pd \notin dirs /\ dd \notin dirs) =>
                  /\ plugin'.made = "failed"
                  /\ plugin'.exc = "FileNotFoundError"
                  /\ dirs' = dirs /\ files' = files
      ]_vars

\* a plugin loaded from a persisted index while its data directory holds
\* other documents
C26_Witness ==
    /\ plugin # Absent
    /\ plugin.made = "loaded"
    /\ plugin.data_dir \in dirs
    /\ files[plugin.data_dir] # plugin._index
    /\ plugin._index # {}

\* ---- C27 ----
\* a plugin that has answered a query
Responded == plugin # Absent /\ plugin.op = "respond"

\* C27 as stated: a room filter is applied exactly when the chat's answer is
\* the name of a room in the plugin's set of known rooms.
C27_FilterExactlyForKnownRoom ==
    Responded => (plugin.filters.on <=> plugin.response \in plugin._rooms)

\* C27 amended: a room filter is applied exactly when the chat's answer is
\* not "None" and is the name of a room in the plugin's set of known rooms,
\* and then it is an exact match of room_name on that answer; so a filter
\* never names a room absent from the indexed documents.
C27_FilterForKnownRoomButNone ==
    Responded =>
        /\ plugin.filters.on <=>
               (plugin.response # "None" /\ plugin.response \in plugin._rooms)
        /\ plugin.filters.on =>
               /\ plugin.filters.key = "room_name"
               /\ plugin.filters.value = plugin.response
               /\ plugin.filters.value \in plugin._index

\* a query answered with the name of a known room, and filtered
C27_Witness ==
    /\ Responded
    /\ plugin.response = "kitchen"
    /\ plugin.filters.on
    /\ plugin.retrieved = {"kitchen"}
    /\ "None" \in plugin._rooms

\* ---- C28 ----
AnswersFiles ==
    {AnswersPath(program, Scenes[i]) : program \in Programs, i \in 1..Len(Scenes)}

\* the answers file new holds every entry of the answers file old
Extends(old, new) ==
    /\ new.valid
    /\ DOMAIN old.entries \subseteq DOMAIN new.entries
    /\ \A nr \in DOMAIN old.entries : new.entries[nr] = old.entries[nr]

\* a step of the loop over the questions that stays in the loop
InLoop ==
    /\ InRun /\ runner.pc = "question"
    /\ runner'.made = "running" /\ runner'.pc = "question"

\* C28: a question whose number is a key of the answers loaded from the
\* answers file is never sent to the planner, no step overwrites or removes
\* an entry of an answers file, and after each answer the file holds all
\* earlier entries plus the new one: an answers file only grows.
C28_AnswersFileOnlyGrows ==
    [][/\ InLoop => (runner'.asked \ runner.asked) \cap runner.loaded = {}
       /\ \A p \in AnswersFiles \cap DOMAIN files :
              files[p].valid => Extends(files[p], files'[p])
       /\ (InLoop /\ runner'.log = "answer" /\ runner' # runner) =>
              LET p == AnswersPath(runner.program, Scenes[runner.scene])
              IN  /\ p \in DOMAIN files'
                  /\ files'[p] = Json(runner'.answers)
                  /\ DOMAIN runner'.answers =
                         DOMAIN runner.answers \cup (runner'.asked \ runner.asked)
      ]_vars

\* ---- C29 ----
\* C29: an exception while answering a question leaves the answers in
\* memory and the answers file unchanged and the loop goes on with the next
\* question of the scene; an exception at scene level ends that scene only,
\* the run going on with the next scene.
C29_ExceptionLeavesAnswers ==
    [][(InRun /\ runner'.made = "running" /\ runner' # runner) =>
         /\ runner'.log = "Error with question" =>
              /\ runner'.answers = runner.answers
              /\ files' = files
              /\ runner'.pc = "question"
              /\ runner'.scene = runner.scene
              /\ runner'.todo = Tail(runner.todo)
         /\ runner'.log = "Tests interrupted" =>
              /\ files' = files
              /\ runner'.pc = "scene"
              /\ runner'.scene = runner.scene + 1
      ]_vars

\* ---- C30 ----
\* C30: get_config builds the Config of a prefix at most once. A call for
\* a prefix not stored yet makes one Config from the dotenv values, stores
\* and returns it; a call for a stored prefix makes none and returns the
\* stored object; no call changes or removes the object stored for another
\* prefix, nor any object made, nor the values read from the dotenv file.
C30_ConfigBuiltOnce ==
    [][handler' # handler =>
         LET prefix == handler'.params_type
             stored == handler._retrieved_configs
         IN  /\ prefix \in DOMAIN stored =>
                  /\ handler'.objects = handler.objects
                  /\ handler'._retrieved_configs = stored
                  /\ handler'.returned = stored[prefix]
             /\ prefix \notin DOMAIN stored =>
                  /\ Len(handler'.objects) = Len(handler.objects) + 1
                  /\ handler'.returned = Len(handler'.objects)
                  /\ handler'.objects[handler'.returned] =
                         NewConfig(handler._config, prefix)
                  /\ DOMAIN handler'._retrieved_configs = DOMAIN stored \cup {prefix}
                  /\ handler'._retrieved_configs[prefix] = handler'.returned
             /\ \A other \in DOMAIN stored :
                  handler'._retrieved_configs[other] = stored[other]
             /\ \A id \in DOMAIN handler.objects :
                  handler'.objects[id] = handler.objects[id]
             /\ handler'._config = handler._config
      ]_vars

\* after the Config of a second prefix was built, a call for the first
\* prefix has returned the object built first, read from the dotenv file
C30_Witness ==
    /\ handler # Absent
    /\ Len(handler.objects) = 2
    /\ handler.returned = 1
    /\ handler._retrieved_configs[handler.params_type] = 1
    /\ handler.objects[1].api_key = StrValue("key-1")

====
